---- MODULE Spec2Model ----
(***************************************************************************)
(* A model of pdslogger.PdsLogger: the tier stack (open / close), the      *)
(* per-alias and per-level counters, the per-alias limits and the          *)
(* suppression of messages beyond a limit.                                 *)
(*                                                                         *)
(* Python dictionaries are functions whose DOMAIN is the set of keys that   *)
(* are present; a defaultdict(int) is such a function read through DGet    *)
(* (a missing key reads as 0) and Touch (a read inserts the key).          *)
(***************************************************************************)
EXTENDS Integers, Sequences, FiniteSets, TLC

VARIABLES
    titles,                 \* self._titles
    start_times,            \* self._start_times
    limits_by_name,         \* self._limits_by_name      (list of dict)
    counters_by_name,       \* self._counters_by_name    (list of defaultdict)
    suppressed_by_name,     \* self._suppressed_by_name
    counters_by_level,      \* self._counters_by_level
    suppressed_by_level,    \* self._suppressed_by_level
    local_handlers,         \* self._local_handlers      (list of list)
    handlers,               \* self._handlers
    min_level,              \* self._min_level
    last,                   \* the last call: its arguments, error, result, records
    hist,                   \* per open tier: what has been logged there (history)
    used,                   \* number of log, open and set_limit calls so far
    LOOKUP,                 \* _LOOKUP: full name -> logger, names as lists of parts
    roots,                  \* self._roots, each a string as a list of characters
    cls,                    \* the class of the logger: "PdsLogger" or "NullLogger"
    files,                  \* the log directory: file name -> "old" or "new" content
    pc,                     \* per process with a midnight handler: where it is
    logged                  \* per level name: the log() calls completed since the
                            \* construction, and those of them that were suppressed
                            \* (history)

vars == <<titles, start_times, limits_by_name, counters_by_name,
          suppressed_by_name, counters_by_level, suppressed_by_level,
          local_handlers, handlers, min_level, last, hist, used, LOOKUP,
          roots, cls, files, pc, logged>>

\* what the calls that log, open and close leave alone
env == <<LOOKUP, roots, cls, files, pc>>

\* what the calls other than log() and exception() leave alone as well
others == <<env, logged>>

\* the state of one logger, but for the record of the last call
logger == <<titles, start_times, limits_by_name, counters_by_name,
            suppressed_by_name, counters_by_level, suppressed_by_level,
            local_handlers, handlers, min_level, hist, used, logged>>

tiers == <<titles, start_times, limits_by_name, counters_by_name,
           suppressed_by_name, counters_by_level, suppressed_by_level,
           local_handlers>>

-----------------------------------------------------------------------------
(* Bounds of the model *)

MaxCalls == 4           \* log, open and set_limit calls in one behaviour
MaxNullCalls == 51      \* the same, on a NullLogger
MaxLimit == 2           \* largest limit drawn for an alias
maxdepth == 2           \* the constructor's maxdepth argument (default 6)

-----------------------------------------------------------------------------
(* Levels and aliases *)

FATAL   == 50
ERROR   == 40
WARNING == 30
INFO    == 20
DEBUG   == 10
HIDDEN  == 1

DEFAULT_LEVEL_BY_NAME ==
    ("fatal" :> FATAL) @@ ("critical" :> FATAL) @@ ("error" :> ERROR) @@
    ("warn" :> WARNING) @@ ("warning" :> WARNING) @@ ("info" :> INFO) @@
    ("debug" :> DEBUG) @@ ("hidden" :> HIDDEN) @@
    ("normal" :> INFO) @@ ("ds_store" :> DEBUG) @@ ("dot_" :> ERROR) @@
    ("invisible" :> WARNING) @@ ("exception" :> FATAL) @@ ("header" :> INFO)

DEFAULT_LEVEL_NAMES ==
    (FATAL :> "FATAL") @@ (ERROR :> "ERROR") @@ (WARNING :> "WARNING") @@
    (INFO :> "INFO") @@ (DEBUG :> "DEBUG") @@ (HIDDEN :> "HIDDEN")

\* self._level_by_name and self._level_names of a logger built with levels={}
level_by_name == DEFAULT_LEVEL_BY_NAME
level_names == DEFAULT_LEVEL_NAMES

\* str.lower() and str.upper() on the strings of the model
UpperNames == {DEFAULT_LEVEL_NAMES[l] : l \in DOMAIN DEFAULT_LEVEL_NAMES}

LowerOf ==
    ("FATAL" :> "fatal") @@ ("ERROR" :> "error") @@ ("WARNING" :> "warning") @@
    ("INFO" :> "info") @@ ("DEBUG" :> "debug") @@ ("HIDDEN" :> "hidden") @@
    ("Warn" :> "warn") @@ ("Info" :> "info") @@
    ("CRITICAL" :> "critical") @@ ("WARN" :> "warn") @@ ("NORMAL" :> "normal") @@
    ("DS_STORE" :> "ds_store") @@ ("DOT_" :> "dot_") @@
    ("INVISIBLE" :> "invisible") @@ ("EXCEPTION" :> "exception") @@
    ("HEADER" :> "header") @@ ("BOGUS" :> "bogus")

\* mutant: the letter case is kept
lower_Same(s) == s

lower(s) == IF s \in DOMAIN LowerOf THEN LowerOf[s] ELSE s

upper(s) ==
    IF s \in UpperNames \/ s = "" THEN s
    ELSE IF \E u \in UpperNames : LowerOf[u] = s
         THEN CHOOSE u \in UpperNames : LowerOf[u] = s
         ELSE IF s = "Warn" \/ s = "warn" THEN "WARN"
         ELSE IF s = "Info" THEN "INFO"
         ELSE IF s = "bogus" THEN "BOGUS"
         ELSE IF s = "exception" THEN "EXCEPTION"
         ELSE IF s = "header" THEN "HEADER"
         ELSE IF s = "normal" THEN "NORMAL"
         ELSE IF s = "critical" THEN "CRITICAL"
         ELSE IF s = "ds_store" THEN "DS_STORE"
         ELSE IF s = "dot_" THEN "DOT_"
         ELSE IF s = "invisible" THEN "INVISIBLE"
         ELSE s

-----------------------------------------------------------------------------
(* Dictionaries and lists *)

EmptyDict == <<>>

DGet(d, k, dflt) == IF k \in DOMAIN d THEN d[k] ELSE dflt

Put(d, k, v) == [x \in (DOMAIN d) \cup {k} |-> IF x = k THEN v ELSE d[x]]

\* reading d[k] of a defaultdict(int) inserts k
Touch(d, k) == IF k \in DOMAIN d THEN d ELSE Put(d, k, 0)

Max(a, b) == IF a >= b THEN a ELSE b

Top(s) == s[Len(s)]

SetTop(s, v) == [s EXCEPT ![Len(s)] = v]

\* s[:-1]
DropLast(s) == IF Len(s) = 0 THEN s ELSE SubSeq(s, 1, Len(s) - 1)

-----------------------------------------------------------------------------
(* The arguments of a call *)

Str(s) == [isstr |-> TRUE, s |-> s, n |-> 0]
Num(n) == [isstr |-> FALSE, s |-> "", n |-> n]

NoArg == Num(0)
NoRet == <<>>

\* one call of self._logger_log: what was asked, whether it passed the
\* logger's minimum level, whether it was printed, and the handlers it reached
Record(kind, level, shown, console, delivered, depth, name, reported, total) ==
    [kind |-> kind, level |-> level, shown |-> shown, console |-> console,
     delivered |-> delivered, depth |-> depth,
     name |-> name, reported |-> reported, total |-> total]

Call(op, arg, force, limits, err, ret, out) ==
    [op |-> op, arg |-> arg, force |-> force, limits |-> limits, hs |-> <<>>,
     name |-> <<>>, stacktrace |-> FALSE,
     filepath |-> <<>>, abspath |-> <<>>, stripped |-> <<>>,
     text |-> "", plus |-> <<>>, written |-> <<>>,
     err |-> err, ret |-> ret, out |-> out]

-----------------------------------------------------------------------------
(* Pure parts of the code *)

get_depth == Len(titles) - 1

\* _logged_text: the number of dashes of self._get_depth() * '-'
Dashes(depth) == IF depth > 0 THEN depth ELSE 0

\* the calls one behaviour may make
Calls == IF cls = "NullLogger" THEN MaxNullCalls ELSE MaxCalls

\* NullLogger._logger_log: the record is printed if forced or FATAL and above
NullPrints(level, force) == force \/ level >= FATAL

\* _logger_log: the level a record is judged at
EffectiveLevel(level, force) == IF force THEN FATAL ELSE level

\* _logger_log: whether a record passes the logger's minimum level
Shown(level, force) == EffectiveLevel(level, force) >= min_level

\* _logger_log: the record is printed if the logger has no handlers
Printed(hl, shown) == shown /\ hl = <<>>

\* self._logger.log(level, message): a handler, [id, file, level], takes the
\* records at or above the level it was given with setLevel
Accepts(h, level) == level >= h.level

\* mutant: the handlers are given the level of the alias
HandedLevel_Alias(level, force) == level

\* _logger_log: the level the record is handed to the handlers at
HandedLevel(level, force) == EffectiveLevel(level, force)

\* _logger_log: the handlers of the list hl that the record reaches
Delivered(hl, level, force) ==
    IF Shown(level, force) /\ hl # <<>>
    THEN {hl[i].id : i \in {j \in 1..Len(hl) : Accepts(hl[j], HandedLevel(level, force))}}
    ELSE {}

\* _logger_log, the logger's handlers being hl
logger_log_to(hl, kind, level, force, depth, name, reported, total) ==
    IF cls = "NullLogger"
    THEN Record(kind, level, NullPrints(level, force), NullPrints(level, force),
                {}, depth, name, reported, total)
    ELSE Record(kind, level, Shown(level, force), Printed(hl, Shown(level, force)),
                Delivered(hl, level, force), depth, name, reported, total)

logger_log(kind, level, force, depth, name, reported, total) ==
    logger_log_to(handlers, kind, level, force, depth, name, reported, total)

\* mutant: a name that is not an alias is logged at the lowest level
Resolve_Lenient(x) ==
    IF x.isstr
    THEN [ok |-> TRUE, name |-> lower(x.s),
          level |-> DGet(level_by_name, lower(x.s), HIDDEN)]
    ELSE IF x.n \in DOMAIN level_names
         THEN [ok |-> TRUE, name |-> level_names[x.n], level |-> x.n]
         ELSE [ok |-> TRUE, name |-> "", level |-> x.n]

\* log(): the level and the level name of the first argument
Resolve(x) ==
    IF x.isstr
    THEN IF lower(x.s) \in DOMAIN level_by_name
         THEN [ok |-> TRUE, name |-> lower(x.s), level |-> level_by_name[lower(x.s)]]
         ELSE [ok |-> FALSE, name |-> lower(x.s), level |-> 0]
    ELSE IF x.n \in DOMAIN level_names
         THEN [ok |-> TRUE, name |-> level_names[x.n], level |-> x.n]
         ELSE [ok |-> TRUE, name |-> "", level |-> x.n]

\* mutant: the level is rounded to the nearest multiple of 10, not down
BucketKey_Round(cl, level) ==
    IF level \in DOMAIN cl THEN level ELSE Max(10 * ((level + 5) \div 10), HIDDEN)

\* log(): the key of counters_by_level that a level is counted under
BucketKey(cl, level) ==
    IF level \in DOMAIN cl THEN level ELSE Max(10 * (level \div 10), HIDDEN)

\* mutant: "= 1" for "+= 1"
CountName_Set(cn, level_name) ==
    IF level_name # "" THEN Put(cn, level_name, 1) ELSE cn

\* log(): the per-alias counter after the message is counted
CountName(cn, level_name) ==
    IF level_name # "" THEN Put(cn, level_name, DGet(cn, level_name, 0) + 1) ELSE cn

\* log(): the per-level counter after the message is counted
CountLevel(cl, level) ==
    Put(cl, BucketKey(cl, level), DGet(cl, BucketKey(cl, level), 0) + 1)

\* log(): the limit in force for a level name
LimitOf(lim, level_name) == DGet(lim, level_name, -1)

\* mutant: force is ignored by the limit test
LogNow_NoForce(limit, count, force) == limit < 0 \/ count <= limit

\* log(): whether the message is logged, given the count after the increment
LogNow(limit, count, force) ==
    IF limit < 0 \/ count <= limit THEN TRUE ELSE force

\* mutant: a notice at every suppression
NoteSuppression_Every(suppressed, limit) == limit # 0

\* mutant: the test of the limit against 0 is missing
NoteSuppression_AtZero(suppressed, limit) == suppressed = 1

\* log(): whether the first-suppression notice is written
NoteSuppression(suppressed, limit) == suppressed = 1 /\ limit # 0

\* summarize(): the sum of the counts of the keys the given branch takes
\* (1: level >= FATAL, 2: elif level >= ERROR, 3: elif level >= WARNING, 4: none)
Branch(level) ==
    IF level >= FATAL THEN 1
    ELSE IF level >= ERROR THEN 2
    ELSE IF level >= WARNING THEN 3
    ELSE 4

RECURSIVE SumBranch(_, _, _)
SumBranch(cl, keys, branches) ==
    IF keys = {} THEN 0
    ELSE LET k == CHOOSE k \in keys : TRUE
         IN (IF Branch(k) \in branches THEN cl[k] ELSE 0)
            + SumBranch(cl, keys \ {k}, branches)

\* summarize(): (fatal, errors, warnings, tests) of one tier's counters_by_level
summarize(cl) ==
    << SumBranch(cl, DOMAIN cl, {1}),
       SumBranch(cl, DOMAIN cl, {2}),
       SumBranch(cl, DOMAIN cl, {3}),
       SumBranch(cl, DOMAIN cl, {1, 2, 3, 4}) >>

\* mutant: no floor at 0
InheritedLimit_NoFloor(limit, count) == limit - count

\* mutant: the limit of the tier above is inherited as it is
InheritedLimit_Same(limit, count) == limit

\* open(): an inherited limit, reduced by what the tier above has counted
InheritedLimit(limit, count) == Max(0, limit - count)

\* open(): the limits of the new tier
NewLimits(plim, L, pcn) ==
    [name \in (DOMAIN plim) \cup (DOMAIN L) |->
        IF name \in DOMAIN L THEN L[name]
        ELSE IF plim[name] >= 0 THEN InheritedLimit(plim[name], DGet(pcn, name, 0))
        ELSE plim[name]]

\* open(): the counters of the tier above, whose keys the loop above reads
ReadByOpen(plim, L, pcn) ==
    [name \in (DOMAIN pcn) \cup {n \in DOMAIN plim : n \notin DOMAIN L /\ plim[n] >= 0}
        |-> DGet(pcn, name, 0)]

\* open(): whether the depth test lets the new tier in
DepthReached == get_depth >= maxdepth

\* mutant: "=" for "+="
TransferCounters_Replace(parent, child) ==
    [k \in (DOMAIN parent) \cup (DOMAIN child) |->
        IF k \in DOMAIN child THEN child[k] ELSE parent[k]]

\* close(): the counters of the tier above after the totals are transferred
TransferCounters(parent, child) ==
    [k \in (DOMAIN parent) \cup (DOMAIN child) |->
        DGet(parent, k, 0) + DGet(child, k, 0)]

\* mutant: the suppressed totals of the closing tier are dropped
TransferSuppressed_Dropped(parent, child, child_counters) == parent

\* close(): the suppressed totals of the tier above after the transfer; only
\* the keys of the closing tier's counters are visited
TransferSuppressed(parent, child, child_counters) ==
    [k \in (DOMAIN parent) \cup (DOMAIN child_counters) |->
        DGet(parent, k, 0)
        + (IF k \in DOMAIN child_counters THEN DGet(child, k, 0) ELSE 0)]

\* close(): a list of dictionaries after the transfer (unchanged at depth 0)
Transferred(stack, merged) ==
    IF Len(stack) > 1 THEN [stack EXCEPT ![Len(stack) - 1] = merged] ELSE stack

\* mutant: summarize() reads the tier above, which holds the merged totals
CloseReturn_Parent(cl_stack) ==
    summarize(cl_stack[Max(1, Len(cl_stack) - 1)])

\* close(): the value returned, summarize() called after the transfer
CloseReturn(cl_stack) == summarize(Top(cl_stack))

-----------------------------------------------------------------------------
(* close(): the summary *)

timestamps == TRUE      \* the constructor's defaults
blanklines == TRUE

\* the strings of the model in Python's order of strings
NameOrder ==
    << "", "DEBUG", "ERROR", "FATAL", "HIDDEN", "INFO", "WARNING",
       "bogus", "critical", "debug", "dot_", "ds_store", "error", "exception",
       "fatal", "header", "hidden", "info", "invisible", "normal", "warn",
       "warning" >>

RankOf(name) == CHOOSE i \in 1..Len(NameOrder) : NameOrder[i] = name

\* (count, name) tuples are compared as Python compares tuples
TupleLess(a, b) == a[1] < b[1] \/ (a[1] = b[1] /\ RankOf(a[2]) < RankOf(b[2]))

\* tuples.sort()
RECURSIVE SortTuples(_)
SortTuples(S) ==
    IF S = {} THEN <<>>
    ELSE LET m == CHOOSE m \in S : \A o \in S \ {m} : TupleLess(m, o)
         IN <<m>> \o SortTuples(S \ {m})

\* the level a per-alias summary line is logged at: the first item of the
\* sorted tuple, which .items() filled with the count
SummaryLevel(first, header) == Max(first, header)

\* mutant: a line for every key of the counters
NoActivity_Never(count, suppressed) == FALSE

\* close(): an alias with nothing counted and nothing suppressed gets no line
NoActivity(count, suppressed) == count + suppressed = 0

\* close(): the number of messages a line reports when some were suppressed
Unsuppressed(count, suppressed) == count - suppressed

\* close(): the two numbers of a line, "<reported> ... reported of <total> total";
\* the plain form "<count> ... messages" is <<count, count>>
NoteNumbers(count, suppressed) ==
    IF suppressed = 0 THEN <<count, count>>
    ELSE <<Unsuppressed(count, suppressed), count>>

\* the (level, note) messages of close(); a note is (kind, name, reported, total)
RECURSIVE SummaryNotes(_, _, _)
SummaryNotes(tuples, cn, sn) ==
    IF tuples = <<>> THEN <<>>
    ELSE LET level == Head(tuples)[1]
             name == Head(tuples)[2]
             count == cn[name]
             suppressed == DGet(sn, name, 0)
             header == level_by_name["header"]
         IN (IF NoActivity(count, suppressed) THEN <<>>
             ELSE << <<SummaryLevel(level, header), "alias", upper(name),
                       NoteNumbers(count, suppressed)[1],
                       NoteNumbers(count, suppressed)[2]>> >>)
            \o SummaryNotes(Tail(tuples), cn, sn)

SummaryMessages(cn, sn) ==
    << <<level_by_name["header"], "completed", "", 0, 0>> >>
    \o (IF timestamps THEN << <<level_by_name["header"], "elapsed", "", 0, 0>> >> ELSE <<>>)
    \o SummaryNotes(SortTuples({<<cn[name], name>> : name \in DOMAIN cn}), cn, sn)

\* the records close() logs once the tier and its handlers are gone, at the
\* depth then current, to the handlers hl that are left
CloseRecords(hl, messages, depth) ==
    [i \in 1..Len(messages) |->
        logger_log_to(hl, messages[i][2], messages[i][1], FALSE, depth,
                      messages[i][3], messages[i][4], messages[i][5])]
    \o (IF blanklines
        THEN <<logger_log_to(hl, "blank", level_by_name["header"], FALSE, depth,
                             "", 0, 0)>>
        ELSE <<>>)

-----------------------------------------------------------------------------
(* Handlers: a handler is [id, file, level]; file is "" unless it is a      *)
(* FileHandler, and level is what setLevel gave it                         *)

InList(h, list) == \E i \in 1..Len(list) : list[i] = h

\* mutant: close() leaves the handlers of the tier attached
Without_Nothing(list, gone) == list

\* close(): the handlers left when those of the closing tier are removed
RECURSIVE Without(_, _)
Without(list, gone) ==
    IF list = <<>> THEN <<>>
    ELSE (IF InList(Head(list), gone) THEN <<>> ELSE <<Head(list)>>)
         \o Without(Tail(list), gone)

\* open(): the handlers of the call that are added to the new tier
RECURSIVE OpenHandlers(_, _, _)
OpenHandlers(hs, cur, log_files) ==
    IF hs = <<>> THEN <<>>
    ELSE LET h == Head(hs)
         IN IF InList(h, cur) \/ (h.file # "" /\ h.file \in log_files)
            THEN OpenHandlers(Tail(hs), cur, log_files)
            ELSE <<h>> \o OpenHandlers(Tail(hs), Append(cur, h), log_files)

LogFiles(list) == {list[i].file : i \in {j \in 1..Len(list) : list[j].file # ""}}

-----------------------------------------------------------------------------
(* History: for every open tier, what the calls made there amount to.      *)
(*   sev       (fatal, errors, warnings, all) by the severity logged       *)
(*   notices   level name -> suppression notices written at this tier      *)
(*   forced    level names logged with force=True here or in a closed child*)
(*   relimited level names whose limit set_limit changed, or an open() of  *)
(*             a closed child overrode                                     *)
(*   direct    per level name, the log() calls made in this tier that were *)
(*             suppressed                                                  *)
(*   overrides level names the open() of this tier gave a limit for        *)
(*   folded    a child tier has been closed into this tier                 *)
(*   attached  ids of the handlers a call attached while this tier was the *)
(*             top tier, or replace_handler installed at the root           *)
(*   replaced  "here": replace_handler was called while this tier was the  *)
(*             top tier; "child": it was called in a child since closed    *)
(***************************************************************************)

NewHist(overrides) ==
    [sev |-> <<0, 0, 0, 0>>, notices |-> EmptyDict, direct |-> EmptyDict,
     forced |-> {},
     relimited |-> {}, overrides |-> overrides, folded |-> FALSE,
     attached |-> {}, replaced |-> {}]

SevOf(level) ==
    << IF level >= FATAL THEN 1 ELSE 0,
       IF level >= ERROR /\ level < FATAL THEN 1 ELSE 0,
       IF level >= WARNING /\ level < ERROR THEN 1 ELSE 0,
       1 >>

AddSev(a, b) == <<a[1] + b[1], a[2] + b[2], a[3] + b[3], a[4] + b[4]>>

HistLog(h, name, level, force, note) ==
    [h EXCEPT !.sev = AddSev(@, SevOf(level)),
              !.notices = IF note THEN Put(@, name, DGet(@, name, 0) + 1) ELSE @,
              !.forced = IF force THEN @ \cup {name} ELSE @]

HistSuppress(h, name, suppressed) ==
    [h EXCEPT !.direct = IF suppressed THEN Put(@, name, DGet(@, name, 0) + 1) ELSE @]

\* one more log() call completed under a level name, suppressed or not
Logged(name, suppressed) ==
    IF name = "" THEN logged
    ELSE [calls |-> Put(logged.calls, name, DGet(logged.calls, name, 0) + 1),
          suppressed |-> IF suppressed
                         THEN Put(logged.suppressed, name,
                                  DGet(logged.suppressed, name, 0) + 1)
                         ELSE logged.suppressed]

HistFold(parent, child) ==
    [parent EXCEPT !.sev = AddSev(@, child.sev),
                   !.forced = @ \cup child.forced,
                   !.relimited = @ \cup child.relimited \cup child.overrides,
                   !.replaced = IF child.replaced # {} THEN @ \cup {"child"} ELSE @,
                   !.folded = TRUE]

Ids(list) == {list[i].id : i \in 1..Len(list)}

\* the handlers a call has added to the logger's list are noted at tier t
HistAttach(h, t, before, after) ==
    IF t \in 1..Len(h)
    THEN [h EXCEPT ![t].attached = @ \cup (Ids(after) \ Ids(before))]
    ELSE h

HistDetachAll(h) ==
    [t \in 1..Len(h) |->
        [h[t] EXCEPT !.attached = {},
                     !.replaced = IF t = Len(h) THEN @ \cup {"here"} ELSE @]]

-----------------------------------------------------------------------------
(* The calls the model makes *)

LimitNames == {"info"}

\* the limits argument of the constructor and of open()
LimitValues == {-1, 0, MaxLimit}

LimitDicts ==
    {EmptyDict} \cup {[n \in {name} |-> v] : name \in LimitNames, v \in LimitValues}

HandlerArgs == {<<>>}

-----------------------------------------------------------------------------
(* PdsLogger.__init__ *)

ConstructIn(class, dicts, disks) ==
    /\ titles = <<"pds.log">>
    /\ start_times = <<0>>
    /\ \E L \in dicts :
          /\ limits_by_name = <<L>>
          /\ hist = <<NewHist(DOMAIN L)>>
    /\ counters_by_name = <<EmptyDict>>
    /\ suppressed_by_name = <<EmptyDict>>
    /\ counters_by_level = <<EmptyDict>>
    /\ suppressed_by_level = <<EmptyDict>>
    /\ local_handlers = << <<>> >>
    /\ handlers = <<>>
    /\ min_level = HIDDEN + 1
    /\ last = Call("init", NoArg, FALSE, EmptyDict, "none", NoRet, <<>>)
    /\ used = 0
    /\ LOOKUP = [n \in {<<"pds", "log">>} |-> 1]
    /\ roots = <<>>
    /\ cls = class
    /\ files \in disks
    /\ pc = <<>>
    /\ logged = [calls |-> EmptyDict, suppressed |-> EmptyDict]

ConstructAs(class, dicts) == ConstructIn(class, dicts, {EmptyDict})

Construct(dicts) == ConstructAs("PdsLogger", dicts)

\* a call that raises before it changes anything
Raise(op, arg, force, limits, err, out) ==
    /\ last' = Call(op, arg, force, limits, err, NoRet, out)
    /\ UNCHANGED <<tiers, handlers, min_level, hist, used, others>>

-----------------------------------------------------------------------------
(* PdsLogger.log *)

Log(x, force) ==
    /\ used < Calls
    /\ LET r == Resolve(x)
       IN IF ~r.ok
          THEN Raise("log", x, force, EmptyDict, "KeyError", <<>>)
          ELSE IF Len(counters_by_name) = 0
          THEN Raise("log", x, force, EmptyDict, "IndexError", <<>>)
          ELSE
            LET cn1 == CountName(Top(counters_by_name), r.name)
                cl1 == CountLevel(Top(counters_by_level), r.level)
                limit == LimitOf(Top(limits_by_name), r.name)
                \* the count is read only when the limit is not negative
                cn2 == IF limit < 0 THEN cn1 ELSE Touch(cn1, r.name)
                log_now == LogNow(limit, DGet(cn2, r.name, 0), force)
                sn1 == Put(Top(suppressed_by_name), r.name,
                           DGet(Top(suppressed_by_name), r.name, 0) + 1)
                sl1 == Put(Top(suppressed_by_level), r.level,
                           DGet(Top(suppressed_by_level), r.level, 0) + 1)
                note == ~log_now /\ NoteSuppression(sn1[r.name], limit)
                out == IF log_now
                       THEN <<logger_log("message", r.level, force, get_depth,
                                         r.name, 0, 0)>>
                       ELSE IF note
                       THEN <<logger_log("notice", r.level, FALSE, get_depth,
                                         r.name, 0, 0)>>
                       ELSE <<>>
            IN /\ counters_by_name' = SetTop(counters_by_name, cn2)
               /\ counters_by_level' = SetTop(counters_by_level, cl1)
               /\ suppressed_by_name' =
                     IF log_now THEN suppressed_by_name
                     ELSE SetTop(suppressed_by_name, sn1)
               /\ suppressed_by_level' =
                     IF log_now THEN suppressed_by_level
                     ELSE SetTop(suppressed_by_level, sl1)
               /\ hist' = SetTop(hist, HistSuppress(HistLog(Top(hist), r.name, r.level,
                                                            force, note),
                                                    r.name, ~log_now))
               /\ used' = used + 1
               /\ logged' = Logged(r.name, ~log_now)
               /\ last' = Call("log", x, force, EmptyDict, "none", NoRet, out)
               /\ UNCHANGED <<titles, start_times, limits_by_name, local_handlers,
                              handlers, min_level, env>>

-----------------------------------------------------------------------------
(* PdsLogger.exception, called inside an "except" clause for an Exception *)

\* mutant: the stack trace is left out
StackTrace_Never(stacktrace) == <<>>

\* exception(): the stack trace, handed to _logger_log unforced and uncounted
StackTrace(stacktrace) ==
    IF stacktrace
    THEN <<logger_log("trace", level_by_name["exception"], FALSE, get_depth,
                      "", 0, 0)>>
    ELSE <<>>

Exception(stacktrace) ==
    /\ used < Calls
    /\ LET r == Resolve(Str("exception"))
       IN IF Len(counters_by_name) = 0
          THEN Raise("exception", Str("exception"), TRUE, EmptyDict, "IndexError", <<>>)
          ELSE
            LET cn1 == CountName(Top(counters_by_name), r.name)
                cl1 == CountLevel(Top(counters_by_level), r.level)
                limit == LimitOf(Top(limits_by_name), r.name)
                cn2 == IF limit < 0 THEN cn1 ELSE Touch(cn1, r.name)
                \* log(..., force=True): log_now is True whatever the limit is
                log_now == LogNow(limit, DGet(cn2, r.name, 0), TRUE)
                out == IF log_now
                       THEN <<logger_log("message", r.level, TRUE, get_depth,
                                         r.name, 0, 0)>>
                       ELSE <<>>
            IN /\ counters_by_name' = SetTop(counters_by_name, cn2)
               /\ counters_by_level' = SetTop(counters_by_level, cl1)
               /\ hist' = SetTop(hist, HistLog(Top(hist), r.name, r.level, TRUE, FALSE))
               /\ used' = used + 1
               /\ logged' = Logged(r.name, ~log_now)
               /\ last' = [Call("exception", Str("exception"), TRUE, EmptyDict, "none",
                                NoRet, out \o StackTrace(stacktrace))
                           EXCEPT !.stacktrace = stacktrace]
               /\ UNCHANGED <<titles, start_times, limits_by_name, suppressed_by_name,
                              suppressed_by_level, local_handlers, handlers,
                              min_level, env>>

-----------------------------------------------------------------------------
(* PdsLogger.open *)

Open(L, hs, force) ==
    LET header == logger_log("header", level_by_name["header"], force, get_depth,
                             "HEADER", 0, 0)
        added == OpenHandlers(hs, handlers, LogFiles(handlers))
    IN IF DepthReached
       THEN Raise("open", NoArg, force, L, "ValueError", <<header>>)
       ELSE
         /\ used < Calls
         /\ used' = used + 1
         /\ titles' = Append(titles, "title")
         /\ start_times' = Append(start_times, 0)
         /\ local_handlers' = Append(local_handlers, added)
         /\ handlers' = handlers \o added
         /\ UNCHANGED <<min_level, others>>
         /\ IF Len(limits_by_name) = 0
            THEN \* self._limits_by_name[-1] raises: the lists above stay longer
                 /\ last' = [Call("open", NoArg, force, L, "IndexError", NoRet,
                                  <<header>>) EXCEPT !.hs = hs]
                 /\ UNCHANGED <<limits_by_name, counters_by_name, suppressed_by_name,
                                counters_by_level, suppressed_by_level, hist>>
            ELSE /\ limits_by_name' =
                       Append(limits_by_name,
                              NewLimits(Top(limits_by_name), L, Top(counters_by_name)))
                 /\ counters_by_name' =
                       Append(SetTop(counters_by_name,
                                     ReadByOpen(Top(limits_by_name), L,
                                                Top(counters_by_name))),
                              EmptyDict)
                 /\ suppressed_by_name' = Append(suppressed_by_name, EmptyDict)
                 /\ counters_by_level' = Append(counters_by_level, EmptyDict)
                 /\ suppressed_by_level' = Append(suppressed_by_level, EmptyDict)
                 /\ hist' = HistAttach(Append(hist, NewHist(DOMAIN L)), Len(hist) + 1,
                                       handlers, handlers \o added)
                 /\ last' = [Call("open", NoArg, force, L, "none", NoRet, <<header>>)
                               EXCEPT !.hs = hs]

-----------------------------------------------------------------------------
(* PdsLogger.summarize *)

Summarize ==
    IF Len(counters_by_level) = 0
    THEN Raise("summarize", NoArg, FALSE, EmptyDict, "IndexError", <<>>)
    ELSE /\ last' = Call("summarize", NoArg, FALSE, EmptyDict, "none",
                         summarize(Top(counters_by_level)), <<>>)
         /\ UNCHANGED <<tiers, handlers, min_level, hist, used, others>>

-----------------------------------------------------------------------------
(* PdsLogger.close *)

Close ==
    IF Len(titles) = 0 \/ Len(counters_by_name) = 0
    THEN Raise("close", NoArg, FALSE, EmptyDict, "IndexError", <<>>)
    ELSE
      LET n == Len(counters_by_name)
          messages == SummaryMessages(Top(counters_by_name), Top(suppressed_by_name))
          cn1 == Transferred(counters_by_name,
                    TransferCounters(counters_by_name[n - 1], counters_by_name[n]))
          sn1 == Transferred(suppressed_by_name,
                    TransferSuppressed(suppressed_by_name[n - 1], suppressed_by_name[n],
                                       counters_by_name[n]))
          cl1 == Transferred(counters_by_level,
                    TransferCounters(counters_by_level[n - 1], counters_by_level[n]))
          sl1 == Transferred(suppressed_by_level,
                    TransferSuppressed(suppressed_by_level[n - 1], suppressed_by_level[n],
                                       counters_by_level[n]))
          ret == CloseReturn(cl1)
      IN /\ handlers' = Without(handlers, Top(local_handlers))
         /\ titles' = DropLast(titles)
         /\ start_times' = DropLast(start_times)
         /\ limits_by_name' = DropLast(limits_by_name)
         /\ counters_by_name' = DropLast(cn1)
         /\ suppressed_by_name' = DropLast(sn1)
         /\ counters_by_level' = DropLast(cl1)
         /\ suppressed_by_level' = DropLast(sl1)
         /\ local_handlers' = DropLast(local_handlers)
         /\ hist' = IF n > 1
                    THEN DropLast([hist EXCEPT ![n - 1] = HistFold(hist[n - 1], hist[n])])
                    ELSE DropLast(hist)
         /\ last' = [Call("close", NoArg, FALSE, EmptyDict, "none", ret,
                          CloseRecords(Without(handlers, Top(local_handlers)),
                                       messages, Len(titles) - 2))
                       EXCEPT !.hs = Top(local_handlers)]
         /\ UNCHANGED <<min_level, used, others>>

-----------------------------------------------------------------------------
(* PdsLogger.set_limit and PdsLogger.set_level *)

SetLimit(name, limit) ==
    IF Len(limits_by_name) = 0
    THEN Raise("set_limit", Str(name), FALSE, EmptyDict, "IndexError", <<>>)
    ELSE /\ used < Calls
         /\ used' = used + 1
         /\ limits_by_name' =
               SetTop(limits_by_name, Put(Top(limits_by_name), lower(name), limit))
         /\ hist' = SetTop(hist, [Top(hist) EXCEPT !.relimited = @ \cup {lower(name)}])
         /\ last' = Call("set_limit", Str(name), FALSE,
                         [k \in {lower(name)} |-> limit], "none", NoRet, <<>>)
         /\ UNCHANGED <<titles, start_times, counters_by_name, suppressed_by_name,
                        counters_by_level, suppressed_by_level, local_handlers,
                        handlers, min_level, others>>

SetLevel(level) ==
    /\ min_level' = level
    /\ last' = Call("set_level", Num(level), FALSE, EmptyDict, "none", NoRet, <<>>)
    /\ UNCHANGED <<tiers, handlers, hist, used, others>>

-----------------------------------------------------------------------------
(* PdsLogger.add_handler and PdsLogger.replace_handler *)

\* the handlers of a call that are not yet in the list cur, each once
RECURSIVE NewHandlers(_, _)
NewHandlers(hs, cur) ==
    IF hs = <<>> THEN <<>>
    ELSE IF InList(Head(hs), cur) THEN NewHandlers(Tail(hs), cur)
    ELSE <<Head(hs)>> \o NewHandlers(Tail(hs), Append(cur, Head(hs)))

AddHandler(hs) ==
    LET new == NewHandlers(hs, handlers)
    IN /\ used < Calls
       /\ used' = used + 1
       /\ UNCHANGED <<titles, start_times, limits_by_name, counters_by_name,
                      suppressed_by_name, counters_by_level, suppressed_by_level,
                      min_level, others>>
       /\ IF new # <<>> /\ Len(local_handlers) = 0
          THEN \* self._local_handlers[-1] raises after the first append
               /\ handlers' = Append(handlers, Head(new))
               /\ UNCHANGED <<local_handlers, hist>>
               /\ last' = [Call("add_handler", NoArg, FALSE, EmptyDict, "IndexError",
                                NoRet, <<>>) EXCEPT !.hs = hs]
          ELSE /\ handlers' = handlers \o new
               /\ local_handlers' =
                     IF new = <<>> THEN local_handlers
                     ELSE SetTop(local_handlers, Top(local_handlers) \o new)
               /\ hist' = HistAttach(hist, Len(local_handlers), handlers, handlers \o new)
               /\ last' = [Call("add_handler", NoArg, FALSE, EmptyDict, "none",
                                NoRet, <<>>) EXCEPT !.hs = hs]

\* mutant: the new handlers are installed at the current tier
InstallTier_Top(lists) == Len(lists)

\* replace_handler: the tier whose list receives the new handlers,
\* self._local_handlers[0]
InstallTier(lists) == 1

ReplaceHandler(hs) ==
    LET new == NewHandlers(hs, <<>>)
        cleared == [t \in 1..Len(local_handlers) |-> <<>>]
    IN /\ used < Calls
       /\ used' = used + 1
       /\ UNCHANGED <<titles, start_times, limits_by_name, counters_by_name,
                      suppressed_by_name, counters_by_level, suppressed_by_level,
                      min_level, others>>
       /\ IF new # <<>> /\ Len(local_handlers) = 0
          THEN \* self._local_handlers[0] raises after the first append
               /\ handlers' = <<Head(new)>>
               /\ local_handlers' = cleared
               /\ hist' = HistDetachAll(hist)
               /\ last' = [Call("replace_handler", NoArg, FALSE, EmptyDict,
                                "IndexError", NoRet, <<>>) EXCEPT !.hs = hs]
          ELSE /\ handlers' = new
               /\ local_handlers' =
                     IF new = <<>> THEN cleared
                     ELSE [cleared EXCEPT ![InstallTier(cleared)] = new]
               /\ hist' = HistAttach(HistDetachAll(hist), 1, <<>>, new)
               /\ last' = [Call("replace_handler", NoArg, FALSE, EmptyDict, "none",
                                NoRet, <<>>) EXCEPT !.hs = hs]

-----------------------------------------------------------------------------
(* PdsLogger.remove_handler and PdsLogger.remove_all_handlers *)

\* list.remove(h): the list without its first item equal to h
RECURSIVE Remove(_, _)
Remove(list, h) ==
    IF list = <<>> THEN <<>>
    ELSE IF Head(list) = h THEN Tail(list)
    ELSE <<Head(list)>> \o Remove(Tail(list), h)

\* remove_handler: the first tier whose list holds h, 0 when none does
FirstHolder(lists, h) ==
    IF \E t \in 1..Len(lists) : InList(h, lists[t])
    THEN CHOOSE t \in 1..Len(lists) :
            /\ InList(h, lists[t])
            /\ \A u \in 1..(t - 1) : ~InList(h, lists[u])
    ELSE 0

\* remove_handler: the logger's list and the tiers' lists after the loop over
\* the handlers of the call
RECURSIVE remove_handler(_, _, _)
remove_handler(hs, all, lists) ==
    IF hs = <<>> THEN <<all, lists>>
    ELSE LET h == Head(hs)
             t == FirstHolder(lists, h)
         IN IF ~InList(h, all) THEN remove_handler(Tail(hs), all, lists)
            ELSE remove_handler(Tail(hs), Remove(all, h),
                                IF t = 0 THEN lists
                                ELSE [lists EXCEPT ![t] = Remove(@, h)])

RemoveHandler(hs) ==
    LET after == remove_handler(hs, handlers, local_handlers)
    IN /\ used < Calls
       /\ used' = used + 1
       /\ handlers' = after[1]
       /\ local_handlers' = after[2]
       /\ hist' = [t \in 1..Len(hist) |->
                      [hist[t] EXCEPT !.attached = @ \ (Ids(handlers) \ Ids(after[1]))]]
       /\ last' = [Call("remove_handler", NoArg, FALSE, EmptyDict, "none",
                        NoRet, <<>>) EXCEPT !.hs = hs]
       /\ UNCHANGED <<titles, start_times, limits_by_name, counters_by_name,
                      suppressed_by_name, counters_by_level, suppressed_by_level,
                      min_level, others>>

RemoveAllHandlers ==
    /\ used < Calls
    /\ used' = used + 1
    /\ handlers' = <<>>
    /\ local_handlers' = [t \in 1..Len(local_handlers) |-> <<>>]
    /\ hist' = [t \in 1..Len(hist) |-> [hist[t] EXCEPT !.attached = {}]]
    /\ last' = Call("remove_all_handlers", NoArg, FALSE, EmptyDict, "none",
                    NoRet, <<>>)
    /\ UNCHANGED <<titles, start_times, limits_by_name, counters_by_name,
                   suppressed_by_name, counters_by_level, suppressed_by_level,
                   min_level, others>>

-----------------------------------------------------------------------------

LogStep(args) == \E x \in args, force \in BOOLEAN : Log(x, force)

OpenStep(dicts, forces) ==
    \E L \in dicts, hs \in HandlerArgs, force \in forces : Open(L, hs, force)

SetLimitStep(names) == \E name \in names, limit \in LimitValues : SetLimit(name, limit)

SetLevelStep(levels) == \E level \in levels : SetLevel(level)

(* Limits: one alias, with and without force, under every limit *)

LimitLogArgs == {Str("info")}

Init == Construct(LimitDicts)

Next ==
    \/ LogStep(LimitLogArgs)
    \/ OpenStep(LimitDicts, {FALSE})
    \/ Close
    \/ SetLimitStep({"Info"})

Spec == Init /\ [][Next]_vars

(* Counting: names and numbers of every severity class; "hidden" is below  *)
(* the logger's minimum level, and suppressed when its limit is 0          *)

CountLogArgs == {Str("Warn"), Str("hidden"), Str("bogus"), Num(5), Num(45), Num(55)}

CountDicts == {EmptyDict} \cup {[n \in {"hidden"} |-> v] : v \in {0, 1}}

InitCount == Construct(CountDicts)

NextCount ==
    \/ \E x \in CountLogArgs : Log(x, FALSE)
    \/ OpenStep({EmptyDict}, {FALSE})
    \/ Close
    \/ Summarize

SpecCount == InitCount /\ [][NextCount]_vars

(* Numbers: "info" logged by its name and by its number, 20, under a limit *)

NumLogArgs == {Str("info"), Num(INFO)}

NextNum ==
    \/ \E x \in NumLogArgs : Log(x, FALSE)
    \/ OpenStep({EmptyDict}, {FALSE})
    \/ Close
    \/ Summarize

SpecNum == Init /\ [][NextNum]_vars

(* Exceptions: "exception" with and without a limit, logged by exception() *)
(* and by log(), the logger's level at its default and above FATAL         *)

ExcDicts == {EmptyDict} \cup {[n \in {"exception"} |-> v] : v \in {0, 1}}

ExcLevels == {HIDDEN + 1, FATAL + 10}

InitExc == Construct(ExcDicts)

NextExc ==
    \/ \E stacktrace \in BOOLEAN : Exception(stacktrace)
    \/ Log(Str("exception"), FALSE)
    \/ OpenStep(ExcDicts, {FALSE})
    \/ Close
    \/ SetLevelStep(ExcLevels)

SpecExc == InitExc /\ [][NextExc]_vars

(* Handlers: two file handlers of one file, made by warning_handler and by  *)
(* file_handler, and a stream handler set above FATAL; the logger's level  *)
(* is moved to WARNING and to above FATAL                                  *)

WarningFile == [id |-> 1, file |-> "a.log", level |-> WARNING]
PlainFile == [id |-> 2, file |-> "a.log", level |-> HIDDEN + 1]
QuietStream == [id |-> 3, file |-> "", level |-> FATAL + 10]

SinkArgs == {<<>>, <<WarningFile>>, <<PlainFile>>, <<QuietStream>>,
             <<WarningFile, PlainFile>>}

SinkLevels == {WARNING, FATAL + 10}

InitSink == Construct({EmptyDict})

NextSink ==
    \/ LogStep({Str("info")})
    \/ \E hs \in SinkArgs : Open(EmptyDict, hs, FALSE)
    \/ Close
    \/ \E hs \in SinkArgs : AddHandler(hs)
    \/ \E hs \in SinkArgs : ReplaceHandler(hs)
    \/ SetLevelStep(SinkLevels)

SpecSink == InitSink /\ [][NextSink]_vars

(* Handlers added, removed and replaced at every tier *)

NextHandlers ==
    \/ \E hs \in SinkArgs : Open(EmptyDict, hs, FALSE)
    \/ Close
    \/ \E hs \in SinkArgs : AddHandler(hs)
    \/ \E hs \in SinkArgs : RemoveHandler(hs)
    \/ RemoveAllHandlers
    \/ \E hs \in SinkArgs : ReplaceHandler(hs)

SpecHandlers == InitSink /\ [][NextHandlers]_vars

-----------------------------------------------------------------------------
(* The registry of loggers: PdsLogger.__init__ and PdsLogger.get_logger.    *)
(* A name is the list of its period-separated parts.                       *)

MaxLoggers == 3         \* loggers registered in one behaviour, the first included

\* logname.startswith(default_prefix), the prefix ending with its one period
StartsWith(logname, prefix) == Len(logname) >= 2 /\ Head(logname) = prefix

\* __init__: the name with the default prefix prepended if it is missing;
\* an empty default_prefix prepends nothing
FullName(logname, default_prefix) ==
    IF default_prefix # "" /\ ~StartsWith(logname, default_prefix)
    THEN <<default_prefix>> \o logname
    ELSE logname

\* the logger a new one would be: they are numbered as they are registered
NewLogger == Cardinality(DOMAIN LOOKUP) + 1

\* mutant: the name as given is tried before the name with "pds." prepended
get_logger_ExactFirst(table, logname) ==
    IF logname \in DOMAIN table THEN [ok |-> TRUE, logger |-> table[logname]]
    ELSE IF <<"pds">> \o logname \in DOMAIN table
    THEN [ok |-> TRUE, logger |-> table[<<"pds">> \o logname]]
    ELSE [ok |-> FALSE, logger |-> 0]

\* get_logger: _LOOKUP['pds.' + logname], and _LOOKUP[logname] on a KeyError
get_logger(table, logname) ==
    IF <<"pds">> \o logname \in DOMAIN table
    THEN [ok |-> TRUE, logger |-> table[<<"pds">> \o logname]]
    ELSE IF logname \in DOMAIN table
    THEN [ok |-> TRUE, logger |-> table[logname]]
    ELSE [ok |-> FALSE, logger |-> 0]

\* set_level(level) and the levels mapping of __init__: a level name is looked
\* up under its lower-case form, and a name not found raises KeyError
KnownLevel(level) == lower(level) \in DOMAIN DEFAULT_LEVEL_BY_NAME

\* the registry with the logger about to be made entered under its name
Registered(table, full) ==
    [n \in (DOMAIN table) \cup {full} |-> IF n = full THEN NewLogger ELSE table[n]]

\* PdsLogger(logname, default_prefix=..., level=...), or EasyLogger(...) if fake
NewPdsLogger(logname, default_prefix, level, fake) ==
    LET full == FullName(logname, default_prefix)
        call(err, ret) ==
            [Call("init", Str(level), fake, EmptyDict, err, ret, <<>>)
                EXCEPT !.name = full]
    IN /\ UNCHANGED <<logger, roots, cls, files, pc>>
       /\ IF Len(full) \notin {2, 3}
          THEN /\ last' = call("ValueError", NoRet)
               /\ UNCHANGED LOOKUP
          ELSE IF fake
          THEN \* EasyLogger.__init__ restores _LOOKUP as it was, raising or not
               /\ last' = IF KnownLevel(level) THEN call("none", <<0>>)
                          ELSE call("KeyError", NoRet)
               /\ UNCHANGED LOOKUP
          ELSE IF full \in DOMAIN LOOKUP
          THEN /\ last' = call("ValueError", NoRet)
               /\ UNCHANGED LOOKUP
          ELSE \* the name is registered before the level names are looked up
               /\ Cardinality(DOMAIN LOOKUP) < MaxLoggers
               /\ last' = IF KnownLevel(level) THEN call("none", <<NewLogger>>)
                          ELSE call("KeyError", NoRet)
               /\ LOOKUP' = Registered(LOOKUP, full)

GetLogger(logname) ==
    LET found == get_logger(LOOKUP, logname)
    IN /\ last' = [Call("get_logger", NoArg, FALSE, EmptyDict,
                        IF found.ok THEN "none" ELSE "KeyError",
                        IF found.ok THEN <<found.logger>> ELSE NoRet,
                        <<>>) EXCEPT !.name = logname]
       /\ UNCHANGED <<logger, others>>

LogNames == {<<"x">>, <<"pds", "x">>, <<"a", "b">>, <<"pds", "a", "b">>,
             <<"a", "b", "c", "d">>}

Prefixes == {"pds", ""}

\* level names given to the constructor, one of them unknown
LevelArgs == {"INFO", "BOGUS"}

InitRegistry == Construct({EmptyDict})

NextRegistry ==
    \/ \E logname \in LogNames, prefix \in Prefixes, level \in LevelArgs,
          fake \in BOOLEAN :
             NewPdsLogger(logname, prefix, level, fake)
    \/ \E logname \in LogNames : GetLogger(logname)

SpecRegistry == InitRegistry /\ [][NextRegistry]_vars

-----------------------------------------------------------------------------
(* Roots: add_root, replace_root and _logged_filepath; a string is the list *)
(* of its characters                                                        *)

\* the code points of the characters that occur
ord(c) == CASE c = "/" -> 47 [] c = "a" -> 97 [] c = "b" -> 98 [] OTHER -> 102

\* s.rstrip(c)
RECURSIVE rstrip(_, _)
rstrip(s, c) == IF s # <<>> /\ s[Len(s)] = c THEN rstrip(DropLast(s), c) ELSE s

\* s.startswith(p)
startswith(s, p) == Len(p) <= Len(s) /\ SubSeq(s, 1, Len(p)) = p

\* s[len(p):]
After(s, p) == SubSeq(s, Len(p) + 1, Len(s))

\* x < y for two strings
RECURSIVE StrLess(_, _)
StrLess(x, y) ==
    IF y = <<>> THEN FALSE
    ELSE IF x = <<>> THEN TRUE
    ELSE IF Head(x) # Head(y) THEN ord(Head(x)) < ord(Head(y))
    ELSE StrLess(Tail(x), Tail(y))

\* (-len(x), x) < (-len(y), y)
KeyLess(x, y) == Len(x) > Len(y) \/ (Len(x) = Len(y) /\ StrLess(x, y))

\* one root put at its place in a sorted list
RECURSIVE InsertRoot(_, _)
InsertRoot(r, sorted) ==
    IF sorted = <<>> THEN <<r>>
    ELSE IF KeyLess(r, Head(sorted)) THEN <<r>> \o sorted
    ELSE <<Head(sorted)>> \o InsertRoot(r, Tail(sorted))

\* mutant: the list is left in the order of the calls
SortRoots_Unsorted(rs) == rs

\* self._roots.sort(key=lambda x: (-len(x), x))
RECURSIVE SortRoots(_)
SortRoots(rs) == IF rs = <<>> THEN <<>> ELSE InsertRoot(Head(rs), SortRoots(Tail(rs)))

\* the loop of add_root: each root with one '/' at its end, unless it is there
RECURSIVE AppendRoots(_, _)
AppendRoots(rs, args) ==
    IF args = <<>> THEN rs
    ELSE LET root_ == rstrip(Head(args), "/") \o <<"/">>
         IN AppendRoots(IF InList(root_, rs) THEN rs ELSE Append(rs, root_),
                        Tail(args))

add_root(rs, args) == SortRoots(AppendRoots(rs, args))

\* the loop of _logged_filepath over the roots rs, from the first
RECURSIVE StripFirst(_, _, _)
StripFirst(rs, filepath, abspath) ==
    IF rs = <<>> THEN filepath
    ELSE IF startswith(filepath, Head(rs)) THEN After(filepath, Head(rs))
    ELSE IF startswith(abspath, Head(rs)) THEN After(abspath, Head(rs))
    ELSE StripFirst(Tail(rs), filepath, abspath)

\* _logged_filepath; abspath is what Path(filepath).resolve() gives
logged_filepath(rs, filepath, abspath) ==
    IF filepath = <<>> THEN <<>> ELSE StripFirst(rs, filepath, abspath)

AddRoot(args) ==
    /\ roots' = add_root(roots, args)
    /\ last' = Call("add_root", NoArg, FALSE, EmptyDict, "none", NoRet, <<>>)
    /\ UNCHANGED <<logger, LOOKUP, cls, files, pc>>

ReplaceRoot(args) ==
    /\ roots' = add_root(<<>>, args)
    /\ last' = Call("replace_root", NoArg, FALSE, EmptyDict, "none", NoRet, <<>>)
    /\ UNCHANGED <<logger, LOOKUP, cls, files, pc>>

LoggedFilepath(filepath, abspath) ==
    /\ last' = [Call("logged_filepath", NoArg, FALSE, EmptyDict, "none", NoRet, <<>>)
                EXCEPT !.filepath = filepath, !.abspath = abspath,
                       !.stripped = logged_filepath(roots, filepath, abspath)]
    /\ UNCHANGED <<logger, others>>

\* "/a", "/a/", "/a/b//", "/b" and ""
RootArgs ==
    { <<"/", "a">>, <<"/", "a", "/">>, <<"/", "a", "/", "b", "/", "/">>,
      <<"/", "b">>, <<>> }

\* the arguments of one call: no root (replace_root only), one or two
RootLists == {<<>>} \cup {<<r>> : r \in RootArgs} \cup (RootArgs \X RootArgs)

\* "", "/a/b/f", "/a/f", "b/f" and "/f"
FilePaths ==
    { <<>>, <<"/", "a", "/", "b", "/", "f">>, <<"/", "a", "/", "f">>,
      <<"b", "/", "f">>, <<"/", "f">> }

\* what resolve() can give: a relative path under the working directory, and
\* an absolute path as it is or, through a symbolic link, elsewhere
AbsPaths ==
    { <<"/", "a", "/", "b", "/", "f">>, <<"/", "a", "/", "f">>,
      <<"/", "b", "/", "f">>, <<"/", "f">> }

InitRoots == Construct({EmptyDict})

NextRoots ==
    \/ \E args \in RootLists \ {<<>>} : AddRoot(args)
    \/ \E args \in RootLists : ReplaceRoot(args)
    \/ \E filepath \in FilePaths, abspath \in AbsPaths : LoggedFilepath(filepath, abspath)

SpecRoots == InitRoots /\ [][NextRoots]_vars

-----------------------------------------------------------------------------
(* NullLogger: one alias below FATAL, logged often enough for its count to  *)
(* reach FATAL                                                              *)

InitNull == ConstructAs("NullLogger", {EmptyDict})

\* nothing has been logged in a tier that is open
NothingLogged ==
    \A i \in 1..Len(counters_by_name) :
        \A k \in DOMAIN counters_by_name[i] : counters_by_name[i][k] = 0

\* the tiers are opened before the first message is logged
NextNull ==
    \/ Log(Str("info"), FALSE)
    \/ NothingLogged /\ OpenStep({EmptyDict}, BOOLEAN)
    \/ Close

SpecNull == InitNull /\ [][NextNull]_vars

-----------------------------------------------------------------------------
(* file_handler: the log "a.log" in a directory that holds earlier logs; a  *)
(* file name is <<stem, n>>, n = 0 for stem.log and n > 0 for stem_v00n.log; *)
(* a file is "old" if it was there before the last call, "new" if not       *)

MaxVersion == 3

FileName(stem, n) == <<stem, n>>

\* the files of the directory, all of them there before the call
Aged(fs) == [f \in DOMAIN fs |-> "old"]

\* max_version: the greatest n of the files stem_v<n>.log
max_version(fs, stem) ==
    LET ns == {f[2] : f \in {g \in DOMAIN fs : g[1] = stem /\ g[2] > 0}}
    IN IF ns = {} THEN 0 ELSE CHOOSE n \in ns : \A k \in ns : k <= n

\* os.rename(source, dest) where source exists
Rename(fs, source, dest) ==
    [f \in ((DOMAIN fs) \ {source}) \cup {dest} |-> IF f = dest THEN fs[source] ELSE fs[f]]

\* logpath.unlink()
Unlink(fs, f) == [g \in (DOMAIN fs) \ {f} |-> fs[g]]

\* the directory after the branch of the rotation method
Rotated(fs, rotation, logpath) ==
    IF rotation = "number" /\ logpath \in DOMAIN fs
    THEN Rename(fs, logpath, FileName(logpath[1], max_version(fs, logpath[1]) + 1))
    ELSE IF rotation = "replace" /\ logpath \in DOMAIN fs
    THEN Unlink(fs, logpath)
    ELSE fs

\* suffix.lstrip('_') for the suffixes that occur
lstrip_(suffix) == IF suffix = "_s" THEN "s" ELSE suffix

\* the stem with '_' and the suffix added, the suffix without leading '_'
WithSuffix(logpath, suffix) ==
    IF suffix = "" THEN logpath
    ELSE FileName(logpath[1] \o "_" \o lstrip_(suffix), logpath[2])

\* logging.FileHandler(logpath, mode='a') opens the file, and makes it if needed
Opened(fs, f) == IF f \in DOMAIN fs THEN fs ELSE Put(fs, f, "new")

\* file_handler, but for what it leaves alone
FileHandlerCall(rotation, suffix) ==
    IF rotation \notin {"none", "number", "midnight", "ymd", "ymdhms", "replace"}
    THEN /\ last' = Call("file_handler", Str(rotation), FALSE, EmptyDict, "ValueError",
                         NoRet, <<>>)
         /\ UNCHANGED <<logger, LOOKUP, roots, cls, files>>
    ELSE LET logpath == FileName("a", 0)
             written == WithSuffix(logpath, suffix)
         IN /\ max_version(files, "a") < MaxVersion
            /\ files' = Opened(Rotated(Aged(files), rotation, logpath), written)
            /\ last' = [Call("file_handler", Str(rotation), FALSE, EmptyDict, "none",
                             NoRet, <<>>)
                        EXCEPT !.text = suffix, !.written = written]
            /\ UNCHANGED <<logger, LOOKUP, roots, cls>>

FileHandler(rotation, suffix) == FileHandlerCall(rotation, suffix) /\ UNCHANGED pc

\* the directory at the start: any of a.log, a_v001.log, a_v002.log, a_s.log
\* and a_s_v001.log
Disks ==
    {[f \in D |-> "old"] :
        D \in SUBSET {FileName("a", 0), FileName("a", 1), FileName("a", 2),
                      FileName("a_s", 0), FileName("a_s", 1)}}

Rotations == {"none", "number", "replace", "weekly"}

Suffixes == {"", "s", "_s"}

InitFiles == ConstructIn("PdsLogger", {EmptyDict}, Disks)

NextFiles == \E rotation \in Rotations, suffix \in Suffixes : FileHandler(rotation, suffix)

SpecFiles == InitFiles /\ [][NextFiles]_vars

-----------------------------------------------------------------------------
(* Midnight rotation: several processes, each with a handler made by        *)
(* file_handler(rotation='midnight') on "a.log"; at midnight each handler   *)
(* calls its rotator and then opens "a.log" again                           *)

MaxProcs == 3

\* source and dest of the rotator: the log, and the log with the date added
\* (the whole name of a dated log is the first part of the pair)
source == FileName("a", 0)
dest == FileName("a.log.date", 0)

\* dest + '_'
Underscored(f) == <<f[1] \o "_", f[2]>>

\* mutant: without the try
rotator_Unguarded(fs, src, dst) ==
    IF src \in DOMAIN fs
    THEN [files |-> Rename(fs, src, Underscored(dst)), err |-> "none"]
    ELSE [files |-> fs, err |-> "FileNotFoundError"]

\* _rotator: os.rename(source, dest + '_'), FileNotFoundError passed over
rotator(fs, src, dst) ==
    IF src \in DOMAIN fs
    THEN [files |-> Rename(fs, src, Underscored(dst)), err |-> "none"]
    ELSE [files |-> fs, err |-> "none"]

\* one more process makes its handler, which opens the log
StartProcess ==
    /\ Len(pc) < MaxProcs
    /\ FileHandlerCall("midnight", "")
    /\ pc' = Append(pc, "writing")

\* the handler of process p calls its rotator
Rotate(p) ==
    /\ pc[p] = "writing"
    /\ LET r == rotator(files, source, dest)
       IN /\ files' = r.files
          /\ pc' = [pc EXCEPT ![p] = IF r.err = "none" THEN "rotated" ELSE "failed"]
          /\ last' = Call("rotate", Num(p), FALSE, EmptyDict, r.err, NoRet, <<>>)
    /\ UNCHANGED <<logger, LOOKUP, roots, cls>>

\* the handler of process p opens the log again
Reopen(p) ==
    /\ pc[p] = "rotated"
    /\ files' = Opened(files, source)
    /\ pc' = [pc EXCEPT ![p] = "reopened"]
    /\ last' = Call("reopen", Num(p), FALSE, EmptyDict, "none", NoRet, <<>>)
    /\ UNCHANGED <<logger, LOOKUP, roots, cls>>

InitMidnight == Construct({EmptyDict})

NextMidnight ==
    \/ StartProcess
    \/ \E p \in 1..Len(pc) : Rotate(p)
    \/ \E p \in 1..Len(pc) : Reopen(p)

SpecMidnight == InitMidnight /\ [][NextMidnight]_vars

-----------------------------------------------------------------------------
(* Level names: the level of an alias in log(), and _logged_level; the name *)
(* "INFO+3" is the text "INFO" and the number 3                             *)

MaxSeverity == 70
BelowHidden == 2

\* the (level - lev, name) of _logged_level with level - lev > 0
Diffs(level) ==
    {d \in {<<level - lev, DEFAULT_LEVEL_NAMES[lev]>> : lev \in DOMAIN DEFAULT_LEVEL_NAMES} :
        d[1] > 0}

\* diffs[0] after diffs.sort()
FirstDiff(diffs) == CHOOSE d \in diffs : \A e \in diffs : d[1] <= e[1]

\* _logged_level
logged_level(x) ==
    IF x.isstr THEN [err |-> "none", text |-> upper(x.s), plus |-> <<>>]
    ELSE IF DGet(level_names, x.n, "") # ""
    THEN [err |-> "none", text |-> upper(level_names[x.n]), plus |-> <<>>]
    ELSE IF Diffs(x.n) = {}
    THEN [err |-> "IndexError", text |-> "", plus |-> <<>>]
    ELSE [err |-> "none", text |-> FirstDiff(Diffs(x.n))[2],
          plus |-> <<FirstDiff(Diffs(x.n))[1]>>]

\* the level that log() finds for a name, and the name _logged_level gives it
LevelOfAlias(a) ==
    /\ LET r == Resolve(Str(a))
       IN IF ~r.ok
          THEN Raise("level_of", Str(a), FALSE, EmptyDict, "KeyError", <<>>)
          ELSE /\ last' = [Call("level_of", Str(a), FALSE, EmptyDict,
                                 logged_level(Num(r.level)).err, <<r.level>>, <<>>)
                            EXCEPT !.text = logged_level(Num(r.level)).text,
                                   !.plus = logged_level(Num(r.level)).plus]
               /\ UNCHANGED <<logger, others>>

LoggedLevel(x) ==
    /\ last' = [Call("logged_level", x, FALSE, EmptyDict, logged_level(x).err,
                     NoRet, <<>>)
                EXCEPT !.text = logged_level(x).text, !.plus = logged_level(x).plus]
    /\ UNCHANGED <<logger, others>>

\* every default alias in lower case and in upper case, two with a capital,
\* and a name that is no alias
AliasCases ==
    (DOMAIN DEFAULT_LEVEL_BY_NAME) \cup {upper(a) : a \in DOMAIN DEFAULT_LEVEL_BY_NAME}
        \cup {"Warn", "Info", "bogus"}

Severities == (0 - BelowHidden)..MaxSeverity

InitNames == Construct({EmptyDict})

NextNames ==
    \/ \E a \in AliasCases : LevelOfAlias(a)
    \/ \E n \in Severities : LoggedLevel(Num(n))
    \/ \E a \in {"warn", "Info"} : LoggedLevel(Str(a))

SpecNames == InitNames /\ [][NextNames]_vars

-----------------------------------------------------------------------------
(* Properties *)

Done(op) == last.op = op /\ last.err = "none"

DoneNext(op) == last'.op = op /\ last'.err = "none"

SameElsewhere(d1, d2, k) ==
    \A x \in (DOMAIN d1) \cup (DOMAIN d2) : x # k => DGet(d1, x, 0) = DGet(d2, x, 0)

CountersOf(i) ==
    <<counters_by_name[i], suppressed_by_name[i],
      counters_by_level[i], suppressed_by_level[i]>>

\* the bucket of a severity: the multiple of 10 at or below it, at least HIDDEN
SeverityBucket(level) == Max(10 * (level \div 10), HIDDEN)

\* C1: a log(A, msg) call that completes adds exactly 1 to the top tier's count
\* for alias A and exactly 1 to the top tier's count for the bucket of A's
\* severity, whether or not the message is written; no other count of the top
\* tier and no counter of another tier changes.
C1_LogCountsOnce ==
    [][ (DoneNext("log") /\ last'.arg.isstr) =>
          LET n == Len(counters_by_name)
              A == lower(last'.arg.s)
              B == SeverityBucket(level_by_name[lower(last'.arg.s)])
          IN /\ Len(counters_by_name') = n
             /\ Len(counters_by_level') = n
             /\ DGet(counters_by_name'[n], A, 0) = DGet(counters_by_name[n], A, 0) + 1
             /\ DGet(counters_by_level'[n], B, 0) = DGet(counters_by_level[n], B, 0) + 1
             /\ SameElsewhere(counters_by_name'[n], counters_by_name[n], A)
             /\ SameElsewhere(counters_by_level'[n], counters_by_level[n], B)
             /\ \A i \in 1..(n - 1) : CountersOf(i)' = CountersOf(i)
      ]_vars

\* C1 witness: in a nested tier a "hidden" message, below the logger's minimum
\* level, has just been suppressed by its limit, after an earlier message of
\* another alias was written there.
C1_Witness ==
    /\ Done("log") /\ last.arg.isstr /\ last.out = <<>>
    /\ Len(counters_by_name) >= 2
    /\ level_by_name[lower(last.arg.s)] < min_level
    /\ DGet(Top(suppressed_by_name), lower(last.arg.s), 0) >= 1
    /\ DGet(Top(counters_by_name), "warn", 0) >= 1

-----------------------------------------------------------------------------
(* Limits *)

Tiers == 1..Len(limits_by_name)

Count(t, A) == DGet(counters_by_name[t], A, 0)
Suppressed(t, A) == DGet(suppressed_by_name[t], A, 0)
Notices(t, A) == DGet(hist[t].notices, A, 0)

Written(call) == call.out # <<>> /\ call.out[1].kind = "message"
Noticed(call) == call.out # <<>> /\ call.out[1].kind = "notice"

\* tier t holds a limit N >= 0 for A, and all that has happened to A there is
\* a run of unforced log(A) calls: no forced call, no set_limit, no closed child
PlainRun(t, A) ==
    /\ DGet(limits_by_name[t], A, -1) >= 0
    /\ A \notin hist[t].forced
    /\ A \notin hist[t].relimited
    /\ ~hist[t].folded

\* of a plain run of c calls under limit N: the first N passed, the others were
\* suppressed
FirstNPass(t, A) ==
    LET N == limits_by_name[t][A]
        c == Count(t, A)
    IN /\ Suppressed(t, A) = Max(0, c - N)
       /\ (t = Len(limits_by_name) /\ Done("log") /\ Resolve(last.arg).name = A)
            => (Written(last) <=> c <= N)

\* C2 as stated: after a plain run of c calls under a limit N >= 0, one notice
\* has been written if c > N, and none otherwise; it is written by call N + 1.
C2_OneNoticeForEveryLimit ==
    \A t \in Tiers : \A A \in DOMAIN limits_by_name[t] :
        PlainRun(t, A) =>
            LET N == limits_by_name[t][A]
                c == Count(t, A)
            IN /\ FirstNPass(t, A)
               /\ Notices(t, A) = IF c > N THEN 1 ELSE 0
               /\ (t = Len(limits_by_name) /\ Done("log") /\ Resolve(last.arg).name = A)
                    => (Noticed(last) <=> c = N + 1)

\* C2 amended: after a plain run of c calls under a limit N >= 0 the first N
\* passed the limit and the others were suppressed; under a limit N >= 1 one
\* notice has been written if c > N, by call N + 1, and under the limit 0 no
\* notice is written at all.
C2_OneNoticeForPositiveLimit ==
    \A t \in Tiers : \A A \in DOMAIN limits_by_name[t] :
        PlainRun(t, A) =>
            LET N == limits_by_name[t][A]
                c == Count(t, A)
            IN /\ FirstNPass(t, A)
               /\ Notices(t, A) = IF c > N /\ N >= 1 THEN 1 ELSE 0
               /\ (t = Len(limits_by_name) /\ Done("log") /\ Resolve(last.arg).name = A)
                    => (Noticed(last) <=> (c = N + 1 /\ N >= 1))

\* C2 witness: a plain run under the limit MaxLimit has gone two calls past the
\* limit: the last call was suppressed without a notice, the one notice exists.
C2_Witness ==
    /\ Done("log") /\ last.out = <<>>
    /\ Len(limits_by_name) >= 1
    /\ PlainRun(Len(limits_by_name), "info")
    /\ Top(limits_by_name)["info"] >= 1
    /\ Count(Len(limits_by_name), "info") = Top(limits_by_name)["info"] + 2
    /\ Notices(Len(limits_by_name), "info") = 1

\* C3: while the limit for A at the top tier is 0, an unforced log(A) is
\* suppressed and still counted (count and suppressed total grow by 1), and no
\* notice is written.
C3_ZeroLimitIsSilent ==
    [][ (DoneNext("log") /\ ~last'.force /\ Len(limits_by_name) >= 1
         /\ LimitOf(Top(limits_by_name), Resolve(last'.arg).name) = 0) =>
          LET n == Len(limits_by_name)
              A == Resolve(last'.arg).name
          IN /\ last'.out = <<>>
             /\ DGet(counters_by_name'[n], A, 0) = Count(n, A) + 1
             /\ DGet(suppressed_by_name'[n], A, 0) = Suppressed(n, A) + 1
             /\ hist'[n].notices = hist[n].notices
      ]_vars

\* C3 witness: the first unforced message of a child tier was suppressed without
\* a notice under a limit of 0 that open() derived from a positive limit of the
\* tier above.
C3_Witness ==
    /\ Done("log") /\ ~last.force /\ last.out = <<>>
    /\ Len(limits_by_name) >= 2
    /\ "info" \notin Top(hist).overrides
    /\ "info" \notin Top(hist).relimited
    /\ LimitOf(Top(limits_by_name), "info") = 0
    /\ LimitOf(limits_by_name[Len(limits_by_name) - 1], "info") > 0
    /\ Count(Len(limits_by_name), "info") = 1
    /\ Suppressed(Len(limits_by_name), "info") = 1
    /\ Notices(Len(limits_by_name), "info") = 0

\* C4: log(A, msg, force=True) passes the limit whatever the limit and the count:
\* the message is handed to the logger, the count for A grows by 1, no
\* suppressed total of any tier changes and no notice is written.
C4_ForcePassesLimit ==
    [][ (DoneNext("log") /\ last'.force) =>
          LET n == Len(counters_by_name)
              A == Resolve(last'.arg).name
          IN /\ Written(last')
             /\ Len(last'.out) = 1
             /\ DGet(counters_by_name'[n], A, 0) = Count(n, A) + 1
             /\ suppressed_by_name' = suppressed_by_name
             /\ suppressed_by_level' = suppressed_by_level
             /\ hist'[n].notices = hist[n].notices
      ]_vars

\* C4 witness: a forced message has been written under a limit of 0, and again
\* when the count was already beyond the limit.
C4_Witness ==
    /\ Done("log") /\ last.force /\ Written(last)
    /\ Len(limits_by_name) >= 1
    /\ LimitOf(Top(limits_by_name), "info") = 0
    /\ Count(Len(limits_by_name), "info") >= 2
    /\ Suppressed(Len(limits_by_name), "info") = 0

-----------------------------------------------------------------------------
(* close() and summarize() *)

AllKeys(d1, d2, d3) == (DOMAIN d1) \cup (DOMAIN d2) \cup (DOMAIN d3)

\* C5: close() at depth >= 1 adds, for every alias, the closing tier's count
\* and suppressed total to those of the tier above, and leaves the counters of
\* the tiers further up as they were.
C5_CloseFoldsIntoParent ==
    [][ (DoneNext("close") /\ Len(counters_by_name) >= 2) =>
          LET n == Len(counters_by_name)
          IN /\ Len(counters_by_name') = n - 1
             /\ \A A \in AllKeys(counters_by_name[n], counters_by_name[n - 1],
                                 counters_by_name'[n - 1]) :
                   DGet(counters_by_name'[n - 1], A, 0) = Count(n - 1, A) + Count(n, A)
             /\ \A A \in AllKeys(suppressed_by_name[n], suppressed_by_name[n - 1],
                                 suppressed_by_name'[n - 1]) :
                   DGet(suppressed_by_name'[n - 1], A, 0)
                     = Suppressed(n - 1, A) + Suppressed(n, A)
             /\ \A i \in 1..(n - 2) : CountersOf(i)' = CountersOf(i)
      ]_vars

\* C5 witness: a tier two levels below the root has been closed; it and the
\* tier above had both counted messages of one alias, and it had suppressed
\* some: the tier above now holds more than either did.
C5_Witness ==
    /\ Done("close")
    /\ Len(counters_by_name) = 2
    /\ last.ret[4] >= 1
    /\ \E A \in DOMAIN Top(counters_by_name) :
          /\ Top(counters_by_name)[A] > last.ret[4]
          /\ DGet(Top(suppressed_by_name), A, 0) >= 1

\* C6: close() returns what a summarize() called just before it returned, the
\* totals of the tier being closed (its own messages and its closed children's)
\* and not those of the tier above; summarize() changes nothing.
C6_CloseReturnsSummary ==
    [][ /\ last'.op = "summarize" =>
              UNCHANGED <<tiers, handlers, min_level, hist>>
        /\ (Done("summarize") /\ DoneNext("close")) => last'.ret = last.ret
        /\ DoneNext("close") => last'.ret = Top(hist).sev
      ]_vars

\* C6 witness: a close() has returned the totals of a tier that had a closed
\* child of its own, to a tier above that had counted other messages.
C6_Witness ==
    /\ Done("close")
    /\ Len(counters_by_level) >= 1
    /\ last.ret[4] >= 2
    /\ Top(hist).folded
    /\ summarize(Top(counters_by_level))[4] > last.ret[4]

\* C7: summarize() and close() return (f, e, w, t): f the messages counted at
\* the tier with severity >= FATAL, e those with ERROR <= severity < FATAL, w
\* those with WARNING <= severity < ERROR, t all of them; f + e + w <= t.
C7_SummaryBySeverity ==
    [][ (DoneNext("summarize") \/ DoneNext("close")) =>
          /\ last'.ret = Top(hist).sev
          /\ last'.ret[1] + last'.ret[2] + last'.ret[3] <= last'.ret[4]
      ]_vars

\* C7 witness: summarize() has returned one fatal, one error, one warning and
\* one lesser message, logged by name and by number.
C7_Witness ==
    /\ Done("summarize")
    /\ last.ret = <<1, 1, 1, 4>>

-----------------------------------------------------------------------------
(* open() *)

\* C8: after open(title, limits=L) the new tier's limit for alias A is L[A] if
\* A is a key of L; otherwise max(0, limit - count) of the tier above if that
\* limit is >= 0; otherwise unlimited. The limits of the tier above stay.
C8_OpenLimits ==
    [][ DoneNext("open") =>
          LET n == Len(limits_by_name)
              L == last'.limits
              P == limits_by_name[n]
              New == limits_by_name'[n + 1]
          IN /\ Len(limits_by_name') = n + 1
             /\ \A i \in 1..n : limits_by_name'[i] = limits_by_name[i]
             /\ \A A \in AllKeys(L, P, New) :
                   IF A \in DOMAIN L THEN A \in DOMAIN New /\ New[A] = L[A]
                   ELSE IF DGet(P, A, -1) >= 0
                   THEN A \in DOMAIN New /\ New[A] = Max(0, P[A] - Count(n, A))
                   ELSE DGet(New, A, -1) < 0
      ]_vars

\* C8 witness: open() without a limit for "info" has given the new tier the
\* limit 0, the tier above having counted more messages than its positive
\* limit allows.
C8_Witness ==
    /\ Done("open")
    /\ Len(limits_by_name) >= 2
    /\ "info" \notin DOMAIN last.limits
    /\ LimitOf(Top(limits_by_name), "info") = 0
    /\ LimitOf(limits_by_name[Len(limits_by_name) - 1], "info") >= 1
    /\ Count(Len(limits_by_name) - 1, "info")
         > LimitOf(limits_by_name[Len(limits_by_name) - 1], "info")

\* the messages of alias A that passed the limit in the tiers t and deeper
RECURSIVE PassedFrom(_, _)
PassedFrom(t, A) ==
    IF t > Len(counters_by_name) THEN 0
    ELSE Count(t, A) - Suppressed(t, A) + PassedFrom(t + 1, A)

\* inside tier T nothing has forced a message of A, set its limit, or opened a
\* tier with a limit of its own for A
Undisturbed(T, A) ==
    /\ A \notin hist[T].forced
    /\ A \notin hist[T].relimited
    /\ \A t \in (T + 1)..Len(hist) :
          /\ A \notin hist[t].forced
          /\ A \notin hist[t].relimited
          /\ A \notin hist[t].overrides

\* C9: in a tier T with limit N >= 0 for alias A, as long as no open() inside T
\* overrides A's limit, set_limit is not used and no message is forced, the A
\* messages that passed the limit in T and in the tiers open inside T are at
\* most N.
C9_ChildWithinParentAllowance ==
    \A T \in Tiers : \A A \in DOMAIN limits_by_name[T] :
        (limits_by_name[T][A] >= 0 /\ Undisturbed(T, A))
            => PassedFrom(T, A) <= limits_by_name[T][A]

\* C9 witness: the root tier's allowance is used up by a message at the root
\* and a message in a child tier, and a further message in the child has been
\* suppressed although the child has counted fewer than the root's limit.
C9_Witness ==
    /\ Len(limits_by_name) = 2
    /\ LimitOf(limits_by_name[1], "info") >= 2
    /\ Undisturbed(1, "info")
    /\ Count(1, "info") - Suppressed(1, "info") >= 1
    /\ Count(2, "info") - Suppressed(2, "info") >= 1
    /\ PassedFrom(1, "info") = limits_by_name[1]["info"]
    /\ Suppressed(2, "info") >= 1
    /\ Count(2, "info") <= limits_by_name[1]["info"]

\* C10: the tier stack, the root tier included, never holds more than maxdepth
\* tiers.
C10_DepthWithinMax == Len(titles) <= maxdepth

\* C11: an open() called when the stack already holds the maximum number of
\* tiers fails with the depth error, and leaves the titles, start times,
\* limits, counters and local handler lists of every tier as they were.
C11_FullStackRefusesOpen ==
    [][ (last'.op = "open" /\ Len(titles) >= maxdepth) =>
          (last'.err = "ValueError" /\ UNCHANGED tiers)
      ]_vars

\* C12: the root tier is never removed: the stack always holds at least one
\* tier, and log(), open() and summarize() never fail for want of a tier.
C12_RootStays ==
    /\ Len(titles) >= 1
    /\ Len(counters_by_name) >= 1
    /\ last.err # "IndexError"

-----------------------------------------------------------------------------
(* The summary of close() *)

\* the alias a summary line names in capitals
AliasOf(capname) == CHOOSE a \in DOMAIN level_by_name : upper(a) = capname

AliasLines(call) == {i \in 1..Len(call.out) : call.out[i].kind = "alias"}

\* C13: close() logs the summary line of an alias at the greater of the
\* alias's severity and the HEADER severity, whatever the count.
C13_SummaryAtAliasSeverity ==
    [][ DoneNext("close") =>
          \A i \in AliasLines(last') :
              last'.out[i].level
                = Max(level_by_name[AliasOf(last'.out[i].name)], level_by_name["header"])
      ]_vars

\* C14: close() writes one summary line for each alias whose count at the
\* closing tier is above 0 and for no other; the line gives the count when
\* nothing of the alias was suppressed, and otherwise the count less the
\* suppressed messages, which is never negative, "reported of" the count. A
\* tier closed with nothing counted gets no such line.
C14_SummaryLines ==
    [][ DoneNext("close") =>
          LET n == Len(counters_by_name)
              cn == counters_by_name[n]
              counted == {A \in DOMAIN cn : cn[A] > 0}
              lines == AliasLines(last')
          IN /\ {last'.out[i].name : i \in lines} = {upper(A) : A \in counted}
             /\ Cardinality(lines) = Cardinality(counted)
             /\ \A i \in lines :
                   LET A == AliasOf(last'.out[i].name)
                   IN /\ last'.out[i].total = Count(n, A)
                      /\ last'.out[i].reported >= 0
                      /\ last'.out[i].reported =
                            IF Suppressed(n, A) = 0 THEN Count(n, A)
                            ELSE Count(n, A) - Suppressed(n, A)
      ]_vars

\* C14 witness: a tier has been closed with two summary lines, one of them of
\* an alias of which a message passed the limit and a message was suppressed.
C14_Witness ==
    /\ Done("close")
    /\ Cardinality(AliasLines(last)) = 2
    /\ \E i \in AliasLines(last) :
          /\ last.out[i].reported >= 1
          /\ last.out[i].reported < last.out[i].total

-----------------------------------------------------------------------------
(* Levels and handlers *)

\* the one record of a log() call that wrote its message
Message(call) == call.out[1]

\* C15: a message logged with force=True passes the logger's minimum level
\* whatever set_level has made it: the record is handed to the handlers, or
\* printed when the logger has none.
C15_ForcePassesLevel ==
    [][ (DoneNext("log") /\ last'.force) =>
          /\ Written(last')
          /\ Message(last').shown
          /\ (handlers = <<>> => Message(last').console)
      ]_vars

\* C16 as stated: a message logged with force=True is not delivered to an
\* attached handler whose own level is above the severity of the alias.
C16_ForceKeepsSinkLevel ==
    [][ (DoneNext("log") /\ last'.force /\ Written(last')) =>
          \A i \in 1..Len(handlers) :
              Message(last').level < handlers[i].level
                  => handlers[i].id \notin Message(last').delivered
      ]_vars

\* C16 amended: a message logged with force=True is handed to the handlers at
\* severity FATAL: if it passes the logger's minimum level it is delivered to
\* every attached handler whose own level is at most FATAL, whatever the
\* severity of the alias, and to no handler whose own level is above FATAL.
C16_ForceReachesSinksUpToFatal ==
    [][ (DoneNext("log") /\ last'.force /\ Written(last')) =>
          \A i \in 1..Len(handlers) :
              handlers[i].id \in Message(last').delivered
                  <=> (Message(last').shown /\ handlers[i].level <= FATAL)
      ]_vars

\* C16 witness: a forced "info" message has been delivered to an attached
\* handler whose level is WARNING and not to an attached handler whose level is
\* above FATAL.
C16_Witness ==
    /\ Done("log") /\ last.force /\ Written(last)
    /\ Message(last).level < WARNING
    /\ InList(WarningFile, handlers) /\ InList(QuietStream, handlers)
    /\ WarningFile.id \in Message(last).delivered
    /\ QuietStream.id \notin Message(last).delivered

\* C17: after the close() of a tier at depth >= 1, no handler that was attached
\* while that tier was the top tier (by open's handler argument or by
\* add_handler) is in the logger's handlers, and every handler attached at a
\* tier below it, the root included, still is.
C17_CloseDetachesLocalSinks ==
    [][ (DoneNext("close") /\ Len(local_handlers) >= 2) =>
          LET n == Len(hist)
          IN /\ hist[n].attached \cap Ids(handlers') = {}
             /\ \A t \in 1..(n - 1) : hist[t].attached \subseteq Ids(handlers')
      ]_vars

\* C17 witness: a tier that held two handlers of its own, given by open() or
\* add_handler(), has been closed; the logger's handlers are now those attached
\* at the root, and there is one.
C17_Witness ==
    /\ Done("close")
    /\ Len(hist) = 1
    /\ Len(last.hs) = 2
    /\ hist[1].attached # {}
    /\ Ids(handlers) = hist[1].attached

\* C18: the logger's handlers never include two file handlers of the same
\* file.
C18_OneSinkPerFile ==
    \A i, j \in 1..Len(handlers) :
        (i # j /\ handlers[i].file # "") => handlers[i].file # handlers[j].file

\* C19: replace_handler(sinks), at any depth, leaves the logger with the given
\* handlers and no other, each once; and a close() at depth >= 1 detaches none
\* of the handlers installed at the root, so the given handlers stay attached
\* while the open tiers are closed down to depth 0.
C19_ReplaceInstallsAtRoot ==
    [][ /\ DoneNext("replace_handler") =>
              /\ Ids(handlers') = Ids(last'.hs)
              /\ Len(handlers') = Cardinality(Ids(last'.hs))
        /\ (DoneNext("close") /\ Len(local_handlers) >= 2) =>
              hist[1].attached \subseteq Ids(handlers')
      ]_vars

\* C19 witness: replace_handler() was called with two handlers inside a tier
\* that has since been closed; at depth 0 the two handlers are the logger's
\* handlers.
C19_Witness ==
    /\ Done("close")
    /\ Len(hist) = 1
    /\ hist[1].replaced = {"child"}
    /\ Len(handlers) = 2
    /\ Ids(handlers) = hist[1].attached

\* the handlers a call's records go to: close() logs its summary after it has
\* removed the handlers of the closing tier
HandlersAtLog == IF last'.op = "close" THEN handlers' ELSE handlers

\* C20: while the logger has no handler, every record whose severity is at
\* least the logger's minimum level, or that is forced, is printed to the
\* console, once, and no other is; while it has a handler, nothing is printed.
C20_ConsoleIffNoSink ==
    [][ \A i \in 1..Len(last'.out) :
          LET r == last'.out[i]
              forced == last'.force /\ r.kind \in {"message", "header"}
          IN /\ HandlersAtLog = <<>> => (r.console <=> (r.level >= min_level \/ forced))
             /\ HandlersAtLog # <<>> => ~r.console
      ]_vars

-----------------------------------------------------------------------------
(* Errors of log() *)

\* C21: log() with a name that is not an alias of the logger fails at that
\* call with the lookup error, writes nothing, and leaves the counts, the
\* suppressed totals, the limits and the handlers of every tier as they were.
C21_UnknownAliasFails ==
    [][ (last'.op = "log" /\ last'.arg.isstr
         /\ lower(last'.arg.s) \notin DOMAIN level_by_name) =>
          /\ last'.err = "KeyError"
          /\ last'.out = <<>>
          /\ UNCHANGED <<tiers, handlers>>
      ]_vars

\* C21 witness: log() has failed on an unknown name in a nested tier that had
\* counted a message and suppressed another.
C21_Witness ==
    /\ last.op = "log" /\ last.err = "KeyError"
    /\ Len(counters_by_name) >= 2
    /\ \E A \in DOMAIN Top(counters_by_name) :
          Top(counters_by_name)[A] >= 1 /\ DGet(Top(suppressed_by_name), A, 0) >= 1

-----------------------------------------------------------------------------
(* The registry *)

\* C22 as stated: constructing a logger whose full name is registered fails
\* and leaves the registry as it was; and after a construction that succeeds,
\* get_logger, given the full name, or that name without its leading "pds.",
\* returns the new logger.
C22_RegistryKeepsNames ==
    [][ /\ (last'.op = "init" /\ ~last'.force /\ last'.name \in DOMAIN LOOKUP) =>
              (last'.err = "ValueError" /\ LOOKUP' = LOOKUP)
        /\ (last'.op = "init" /\ ~last'.force /\ last'.err = "none") =>
              LET full == last'.name
                  new == last'.ret[1]
              IN /\ get_logger(LOOKUP', full) = [ok |-> TRUE, logger |-> new]
                 /\ StartsWith(full, "pds") =>
                       get_logger(LOOKUP', Tail(full)) = [ok |-> TRUE, logger |-> new]
      ]_vars

\* C22 amended: as above, but get_logger given the full name returns the new
\* logger only if no logger is registered under "pds." followed by that full
\* name; if one is, get_logger returns that one.
C22_PrefixedNameFirst ==
    [][ /\ (last'.op = "init" /\ ~last'.force /\ last'.name \in DOMAIN LOOKUP) =>
              (last'.err = "ValueError" /\ LOOKUP' = LOOKUP)
        /\ (last'.op = "init" /\ ~last'.force /\ last'.err = "none") =>
              LET full == last'.name
                  new == last'.ret[1]
                  longer == <<"pds">> \o full
              IN /\ LOOKUP'[full] = new
                 /\ \A n \in DOMAIN LOOKUP : LOOKUP'[n] = LOOKUP[n]
                 /\ get_logger(LOOKUP', full) =
                       [ok |-> TRUE,
                        logger |-> IF longer \in DOMAIN LOOKUP THEN LOOKUP[longer]
                                   ELSE new]
                 /\ StartsWith(full, "pds") =>
                       get_logger(LOOKUP', Tail(full)) = [ok |-> TRUE, logger |-> new]
      ]_vars

\* C22 witness: a logger has been registered as "a.b" while another was
\* registered as "pds.a.b".
C22_Witness ==
    /\ last.op = "init" /\ last.err = "none" /\ ~last.force
    /\ last.name = <<"a", "b">>
    /\ <<"pds", "a", "b">> \in DOMAIN LOOKUP
    /\ LOOKUP[<<"a", "b">>] = last.ret[1]

-----------------------------------------------------------------------------
(* exception() *)

\* C23: an exception(error) call that completes adds exactly 1 to the top
\* tier's count of "exception"; hands the error record to the logger, forced,
\* whatever the tier's limit and count for "exception" are, and adds nothing to
\* any suppressed total; and, when stacktrace is true, hands exactly one more
\* record, the stack trace, to the logger, and no record more when it is false:
\* beyond the 1 counted for the error record, no per-alias and no per-severity
\* counter of any tier changes.
C23_ExceptionForcedTraceUncounted ==
    [][ DoneNext("exception") =>
          LET n == Len(counters_by_name)
              B == SeverityBucket(level_by_name["exception"])
          IN /\ Len(counters_by_name') = n
             /\ DGet(counters_by_name'[n], "exception", 0) = Count(n, "exception") + 1
             /\ DGet(counters_by_level'[n], B, 0) = DGet(counters_by_level[n], B, 0) + 1
             /\ SameElsewhere(counters_by_name'[n], counters_by_name[n], "exception")
             /\ SameElsewhere(counters_by_level'[n], counters_by_level[n], B)
             /\ \A i \in 1..(n - 1) : CountersOf(i)' = CountersOf(i)
             /\ suppressed_by_name' = suppressed_by_name
             /\ suppressed_by_level' = suppressed_by_level
             /\ hist'[n].notices = hist[n].notices
             /\ Written(last')
             /\ last'.out[1].shown = (FATAL >= min_level)
             /\ Len(last'.out) = IF last'.stacktrace THEN 2 ELSE 1
             /\ last'.stacktrace =>
                   /\ last'.out[2].kind = "trace"
                   /\ last'.out[2].level = level_by_name["exception"]
                   /\ last'.out[2].shown = (level_by_name["exception"] >= min_level)
      ]_vars

\* C23 witness: exception() with a stack trace has been called in a tier whose
\* limit for "exception" is 1 and whose count was already beyond it, an
\* unforced "exception" message having been suppressed there before.
C23_Witness ==
    /\ Done("exception") /\ last.stacktrace /\ Len(last.out) = 2
    /\ LimitOf(Top(limits_by_name), "exception") = 1
    /\ Count(Len(limits_by_name), "exception") >= 3
    /\ Suppressed(Len(limits_by_name), "exception") = 1

-----------------------------------------------------------------------------
(* Roots *)

\* the list of roots has no duplicate, each root ends with exactly one '/', and
\* the longer root comes first, of two equally long ones the lesser
RootsNormal ==
    /\ \A i, j \in 1..Len(roots) : i < j => KeyLess(roots[i], roots[j])
    /\ \A i \in 1..Len(roots) :
          /\ roots[i] # <<>> /\ roots[i][Len(roots[i])] = "/"
          /\ Len(roots[i]) >= 2 => roots[i][Len(roots[i]) - 1] # "/"

\* the roots that are a prefix of one of the given strings
Matching(strings) == {i \in 1..Len(roots) : \E x \in strings : startswith(x, roots[i])}

\* the longest of these roots, and of equally long ones the lesser
Longest(M) == roots[CHOOSE i \in M : \A j \in M \ {i} : KeyLess(roots[i], roots[j])]

\* C24 as stated: the list of roots is duplicate-free, each root ends with
\* exactly one '/', the list is ordered longest first, then lexicographically;
\* and the path that is logged is the path without the longest root that is a
\* prefix of it, the path itself if no root is a prefix of it, and empty if the
\* path is empty.
C24_StripsLongestRootOfPath ==
    /\ RootsNormal
    /\ last.op = "logged_filepath" =>
          LET M == Matching({last.filepath})
          IN last.stripped = IF M = {} THEN last.filepath
                             ELSE After(last.filepath, Longest(M))

\* C24 amended: the list of roots is as stated; and the path that is logged is
\* empty if the path is empty, and else is found with the longest root that is
\* a prefix of the path or of its resolved absolute form: it is the path
\* without that root if the root is a prefix of the path, the absolute form
\* without that root if not, and the path itself if there is no such root.
C24_StripsLongestRootOfEither ==
    /\ RootsNormal
    /\ last.op = "logged_filepath" =>
          LET M == Matching({last.filepath, last.abspath})
          IN last.stripped =
                IF last.filepath = <<>> \/ M = {} THEN last.filepath
                ELSE IF startswith(last.filepath, Longest(M))
                     THEN After(last.filepath, Longest(M))
                     ELSE After(last.abspath, Longest(M))

\* C24 witness: with three roots or more, "/a/b/f" starts with several of them
\* and is logged as "f".
C24_Witness ==
    /\ last.op = "logged_filepath"
    /\ Len(roots) >= 3
    /\ Cardinality(Matching({last.filepath})) >= 2
    /\ last.filepath = <<"/", "a", "/", "b", "/", "f">>
    /\ last.stripped = <<"f">>

-----------------------------------------------------------------------------
(* Level names *)

\* the default aliases and their documented severities, in the same order
Aliases ==
    <<"fatal", "critical", "error", "warn", "warning", "info", "debug", "hidden",
      "normal", "ds_store", "dot_", "invisible", "exception", "header">>

Documented == <<50, 50, 40, 30, 30, 20, 10, 1, 20, 10, 40, 30, 50, 20>>

\* the standard severities and their upper-case names
Standard ==
    (50 :> "FATAL") @@ (40 :> "ERROR") @@ (30 :> "WARNING") @@ (20 :> "INFO") @@
    (10 :> "DEBUG") @@ (1 :> "HIDDEN")

\* the spellings of an alias that are tried
Spellings(a) ==
    {a, upper(a)} \cup (IF a = "warn" THEN {"Warn"} ELSE {})
                  \cup (IF a = "info" THEN {"Info"} ELSE {})

\* C25: for each of the 14 default aliases, in any letter case, log() finds the
\* documented severity, and the display name of that severity is the
\* upper-case name of the standard severity, without a "+" part.
C25_AliasSeverityAndName ==
    \A i \in 1..Len(Aliases) :
        (last.op = "level_of" /\ last.arg.s \in Spellings(Aliases[i])) =>
            /\ last.err = "none"
            /\ last.ret = <<Documented[i]>>
            /\ last.text = Standard[Documented[i]]
            /\ last.plus = <<>>

\* C25 witness: "WARN", in upper case, has been found to be severity 30, whose
\* display name is "WARNING".
C25_Witness ==
    /\ last.op = "level_of" /\ last.arg.s = "WARN"
    /\ last.ret = <<30>> /\ last.text = "WARNING"

\* C26: for every numeric severity s without a display name of its own,
\* _logged_level returns a name, and the name is that of the greatest standard
\* severity below s, followed by "+" and s minus that severity.
C26_NameForEverySeverity ==
    (last.op = "logged_level" /\ ~last.arg.isstr /\ last.arg.n \notin DOMAIN level_names) =>
        /\ last.err = "none"
        /\ \E lev \in DOMAIN Standard :
              /\ lev < last.arg.n
              /\ \A other \in DOMAIN Standard : other < last.arg.n => other <= lev
              /\ last.text = Standard[lev]
              /\ last.plus = <<last.arg.n - lev>>

-----------------------------------------------------------------------------
(* NullLogger *)

\* C27: whatever is called on a NullLogger, a record it prints is a message,
\* or the stack trace of one, that was logged at FATAL or above or with
\* force=True: no header of open(), no summary line of close(), whatever the
\* counts are, no notice of a suppression and no unforced message below FATAL
\* is printed.
C27_NullLoggerPrintsFatalOrForced ==
    cls = "NullLogger" =>
        \A i \in 1..Len(last.out) :
            last.out[i].console =>
                /\ last.out[i].kind \in {"message", "trace"}
                /\ last.force \/ last.out[i].level >= FATAL

-----------------------------------------------------------------------------
(* file_handler *)

\* C28: when file_handler returns, with rotation "replace" or "number" and any
\* suffix, the file the handler writes to has no earlier content: a file that
\* was at that path before the call has been deleted ("replace"), or is now
\* <stem>_v<NNN><ext>, NNN being one more than the greatest version there was
\* ("number").
C28_RotationClearsWrittenPath ==
    [][ (DoneNext("file_handler") /\ last'.arg.s \in {"replace", "number"}) =>
          LET written == last'.written
              version == FileName(written[1], max_version(files, written[1]) + 1)
          IN /\ written \in DOMAIN files'
             /\ files'[written] = "new"
             /\ (last'.arg.s = "number" /\ written \in DOMAIN files) =>
                   (version \in DOMAIN files' /\ files'[version] = "old")
      ]_vars

-----------------------------------------------------------------------------
(* Midnight rotation *)

\* C29: however the rotation steps of the processes interleave, a call of the
\* rotator does not raise; if the log is not there when it is called, a
\* sibling having renamed it, the call leaves the files as they are; if the
\* log is there, it is renamed to the dated name with '_' at its end, and to
\* nothing else: the dated name without the '_' never exists.
C29_RotationNeverRaises ==
    [][ last'.op = "rotate" =>
          /\ last'.err = "none"
          /\ source \notin DOMAIN files => files' = files
          /\ source \in DOMAIN files =>
                /\ DOMAIN files' = ((DOMAIN files) \ {source}) \cup {Underscored(dest)}
                /\ files'[Underscored(dest)] = files[source]
          /\ dest \notin DOMAIN files'
      ]_vars

\* C29 witness: a process has just called its rotator when the log was gone:
\* two processes have rotated and none has opened the log again.
C29_Witness ==
    /\ last.op = "rotate" /\ last.err = "none"
    /\ source \notin DOMAIN files
    /\ Underscored(dest) \in DOMAIN files
    /\ Cardinality({p \in 1..Len(pc) : pc[p] = "rotated"}) >= 2
    /\ \A p \in 1..Len(pc) : pc[p] # "reopened"

-----------------------------------------------------------------------------
(* The notice of the first suppression, after a child tier *)

\* C30: in a tier whose limit for A is positive, the first log(A) call made in
\* that tier that is suppressed writes exactly one notice, also when a child
\* tier that suppressed A messages, or whose limit for A was 0, was opened and
\* closed in that tier before.
C30_FirstDirectSuppressionNoticed ==
    [][ (DoneNext("log") /\ suppressed_by_name' # suppressed_by_name) =>
          LET n == Len(limits_by_name)
              A == Resolve(last'.arg).name
          IN (LimitOf(limits_by_name[n], A) > 0 /\ DGet(hist[n].direct, A, 0) = 0) =>
                (Noticed(last') /\ Len(last'.out) = 1)
      ]_vars

-----------------------------------------------------------------------------
(* A level given by its number *)

\* C31: a message logged by the number of a standard level is counted by the
\* counter that the level's name in log() is counted by, and is under the limit
\* of that name: log(20, msg) adds 1 to the top tier's count of "info", and it
\* is written if and only if the limit of "info" is negative or that count has
\* not gone past it.
C31_NumberCountsAsItsName ==
    [][ (DoneNext("log") /\ ~last'.arg.isstr /\ last'.arg.n \in DOMAIN DEFAULT_LEVEL_NAMES) =>
          LET n == Len(counters_by_name)
              A == lower(DEFAULT_LEVEL_NAMES[last'.arg.n])
              limit == LimitOf(limits_by_name[n], A)
          IN /\ DGet(counters_by_name'[n], A, 0) = Count(n, A) + 1
             /\ Written(last') <=> (limit < 0 \/ Count(n, A) + 1 <= limit)
      ]_vars

-----------------------------------------------------------------------------
(* Conservation of counts *)

RECURSIVE SumOver(_, _)
SumOver(stack, A) ==
    IF stack = <<>> THEN 0 ELSE DGet(Head(stack), A, 0) + SumOver(Tail(stack), A)

\* C32: as long as close() has not been called at depth 0, for every alias A the
\* counts of A of the open tiers add up to the number of log(A) calls completed
\* since the construction, a call of exception() being one of "exception", and
\* the suppressed totals of A add up to the number of those calls that were
\* suppressed: the records of open() and close() and the notices count nothing.
C32_CountsConserved ==
    Len(counters_by_name) >= 1 =>
        \A A \in DOMAIN DEFAULT_LEVEL_BY_NAME :
            /\ SumOver(counters_by_name, A) = DGet(logged.calls, A, 0)
            /\ SumOver(suppressed_by_name, A) = DGet(logged.suppressed, A, 0)

\* C32 witness: two tiers are open after a child tier was closed into the
\* root; exception() was called in a tier, a log() call was suppressed, and
\* both open tiers hold a count of "exception".
C32_Witness ==
    /\ Len(counters_by_name) = 2
    /\ hist[1].folded
    /\ Count(1, "exception") >= 1 /\ Count(2, "exception") >= 1
    /\ DGet(logged.suppressed, "exception", 0) >= 1
    /\ "exception" \in hist[1].forced \cup hist[2].forced

-----------------------------------------------------------------------------
(* open() that raises *)

\* C33: an open() that raises has written no header, and has left the titles,
\* the start times, the limits, the four counter maps and the lists of local
\* handlers as they were.
C33_FailedOpenLeavesNoTrace ==
    [][ (last'.op = "open" /\ last'.err # "none") =>
          (last'.out = <<>> /\ UNCHANGED tiers)
      ]_vars

-----------------------------------------------------------------------------
(* The logger's handlers and the tiers' handlers *)

\* the number of places of the tiers' lists that hold the handler h
Places(h) ==
    Cardinality(UNION {{<<t, i>> : i \in {j \in 1..Len(local_handlers[t]) :
                                               local_handlers[t][j] = h}} :
                       t \in 1..Len(local_handlers)})

\* C34: on a logger that is not fake, the logger's list of handlers holds each
\* of its handlers once, each of them is in the list of exactly one tier, at one
\* place of it, and the tiers' lists hold no other handler.
C34_HandlersAreTheTiersHandlers ==
    cls = "PdsLogger" =>
       /\ \A i, j \in 1..Len(handlers) : handlers[i] = handlers[j] => i = j
       /\ \A i \in 1..Len(handlers) : Places(handlers[i]) = 1
       /\ \A t \in 1..Len(local_handlers) : \A i \in 1..Len(local_handlers[t]) :
             InList(local_handlers[t][i], handlers)

-----------------------------------------------------------------------------
(* Constructions that raise *)

\* C35: a construction that raises leaves the registry as it was, so that the
\* same construction with a known level name succeeds right after it; and the
\* construction of an EasyLogger or NullLogger never changes the registry.
C35_FailedConstructionRegistersNothing ==
    [][ last'.op = "init" =>
          /\ last'.force => LOOKUP' = LOOKUP
          /\ last'.err # "none" => LOOKUP' = LOOKUP
          /\ (last'.err = "KeyError" /\ ~last'.force) =>
                last'.name \notin DOMAIN LOOKUP'
      ]_vars

-----------------------------------------------------------------------------
(* The depth indicator *)

\* the records _logged_text has formatted: the blank line and the stack trace
\* are handed to the logger as they are, without a depth indicator
Indicated(r) == r.kind \notin {"blank", "trace"}

\* the sections open on a stack of tiers: the tiers above the root
OpenSections(stack) == IF Len(stack) > 1 THEN Len(stack) - 1 ELSE 0

\* C36: the depth indicator of a record has as many dashes as sections are open
\* when it is written: the header of open() is written before the new section
\* is open, the summary records of close() after the section is closed, and
\* the records of a log call in between with the section open.
C36_DashesCountOpenSections ==
    [][ \A i \in 1..Len(last'.out) :
           Indicated(last'.out[i]) =>
              Dashes(last'.out[i].depth) =
                 IF last'.op = "close" THEN OpenSections(counters_by_name')
                 ELSE OpenSections(counters_by_name)
      ]_vars

====
